---- MODULE Spec2Model ----
(***************************************************************************)
(* Model of the dataX sync backend: the validation service, the data       *)
(* processing service (flatten + merge), the sync service (transactional   *)
(* full replace, read-back) and the GET /sync and GET /products handlers.  *)
(***************************************************************************)
EXTENDS Integers, Sequences, FiniteSets, TLC

VARIABLES
    source,             \* what the dataX API currently serves: [products, allocations]
    store,              \* committed database content: [products, allocations] (tables)
    tx,                 \* the open transaction's view of the tables, when one is open
    pc,                 \* position of the GET /sync handler
    fetchA, fetchP,     \* state of the two concurrent fetches of fetchAllData
    products,           \* fetched /products array (also the input of the pure calls)
    allocations,        \* fetched /allocations array (also the input of the pure calls)
    processedProducts,  \* result of mergeProductAndAllocations
    i, j,               \* loop positions of saveProductsToDatabase
    result,             \* the SyncResult object of saveProductsToDatabase
    response,           \* the HTTP response of the last finished GET /sync
    faulted,            \* an environment fault (transport / database) hit this run
    raised,             \* what was thrown inside each fetch method's try block
    rejected,           \* what each fetch method, Promise.all and fetchAllData rejected with
    before,             \* the committed tables when the running request arrived
    hist,               \* read-back after each of the last two fault-free runs
    listed,             \* body of the last GET /products response
    call,               \* which service method was called directly
    pairing,            \* result of a direct validateDataPairing call
    flat, flatOf,       \* result and argument of a direct processAllocations call
    validated,          \* argument of a direct validateProduct / validateAllocation call
    validation,         \* the ValidationResult it returned
    other               \* a second GET /sync request in progress at the same time

vars == <<source, store, tx, pc, fetchA, fetchP, products, allocations,
          processedProducts, i, j, result, response, faulted, raised,
          rejected, before, hist, listed, call, pairing, flat, flatOf,
          validated, validation, other>>

(***************************************************************************)
(* Bounds of the model.                                                    *)
(***************************************************************************)
MaxProducts == 2       \* longest /products array
MaxAllocations == 2    \* longest /allocations array

(***************************************************************************)
(* JavaScript values.  Strings are sequences of characters so that         *)
(* template strings and string ordering are computed, not assumed.         *)
(***************************************************************************)
Undefined == [t |-> "undefined"]
Num(n) == [t |-> "number", v |-> n]
Str(s) == [t |-> "string", v |-> s]
Arr(s) == [t |-> "array", v |-> s]

\* JavaScript falsiness, as tested by `!x`.
Falsy(x) ==
    \/ x.t = "undefined"
    \/ (x.t = "string" /\ x.v = <<>>)
    \/ (x.t = "number" /\ x.v = 0)

TypeOf(x) == x.t
IsArray(x) == x.t = "array"

\* `${x}` inside a template string.
Template(x) ==
    IF x.t = "string" THEN x.v
    ELSE IF x.t = "undefined"
         THEN <<"u", "n", "d", "e", "f", "i", "n", "e", "d">>
         ELSE <<"?">>

\* Code unit of a character (the ones the model uses).
CharCode(c) ==
    CASE c = "1" -> 49 [] c = "2" -> 50 [] c = "3" -> 51
      [] c = "B" -> 66 [] c = "E" -> 69 [] c = "S" -> 83 [] c = "U" -> 85
      [] c = "X" -> 88 [] c = "Y" -> 89 [] c = "_" -> 95
      [] c = "p" -> 112 [] OTHER -> 63

\* a < b for strings, by code unit (the order of `orderBy: { id: "asc" }`).
RECURSIVE StrLess(_, _)
StrLess(a, b) ==
    IF b = <<>> THEN FALSE
    ELSE IF a = <<>> THEN TRUE
    ELSE IF CharCode(Head(a)) # CharCode(Head(b))
         THEN CharCode(Head(a)) < CharCode(Head(b))
         ELSE StrLess(Tail(a), Tail(b))

\* The ProductType enum of the Prisma client.
WEALTH == Str(<<"W", "E", "A", "L", "T", "H">>)
PRIVATE_EQUITY == Str(<<"P", "R", "I", "V", "A", "T", "E", "_", "E", "Q", "U", "I", "T", "Y">>)
ProductType == {WEALTH, PRIVATE_EQUITY}

(***************************************************************************)
(* JavaScript Map (insertion ordered) as a sequence of entries, and Set    *)
(* as a duplicate-free sequence.                                           *)
(***************************************************************************)
MapHas(m, k) == \E n \in 1..Len(m) : m[n].key = k

MapGet(m, k) ==
    IF MapHas(m, k)
    THEN m[CHOOSE n \in 1..Len(m) : m[n].key = k].value
    ELSE Undefined

MapSet(m, k, val) ==
    IF MapHas(m, k)
    THEN [n \in 1..Len(m) |-> IF m[n].key = k THEN [key |-> k, value |-> val] ELSE m[n]]
    ELSE Append(m, [key |-> k, value |-> val])

SetHas(s, k) == \E n \in 1..Len(s) : s[n] = k

RECURSIVE NewSet(_)
NewSet(seq) ==
    IF seq = <<>> THEN <<>>
    ELSE LET rest == NewSet(SubSeq(seq, 1, Len(seq) - 1))
             last == seq[Len(seq)]
         IN IF SetHas(rest, last) THEN rest ELSE Append(rest, last)

Ids(seq) == [n \in 1..Len(seq) |-> seq[n].id]

(***************************************************************************)
(* ValidationService                                                       *)
(***************************************************************************)
validateProductType(productType) ==
    IF Falsy(productType) THEN FALSE ELSE productType \in ProductType

\* Variant that returns at the first violated rule.
validateProductFirstError(product) ==
    [isValid |->
         /\ ~Falsy(product.id)
         /\ validateProductType(product.productType)
         /\ TypeOf(product.profit) = "number"
         /\ TypeOf(product.currentAmount) = "number"
         /\ TypeOf(product.investedAmount) = "number",
     errors |->
         IF Falsy(product.id) THEN <<<<"Product ID is missing">>>>
         ELSE IF ~validateProductType(product.productType)
         THEN <<<<"Invalid or missing product type", product.productType>>>>
         ELSE IF TypeOf(product.profit) # "number"
         THEN <<<<"Profit must be a number">>>>
         ELSE IF TypeOf(product.currentAmount) # "number"
         THEN <<<<"Current amount must be a number">>>>
         ELSE IF TypeOf(product.investedAmount) # "number"
         THEN <<<<"Invested amount must be a number">>>>
         ELSE <<>>]

\* Variant that accepts every summary.
validateProductAccepting(product) == [isValid |-> TRUE, errors |-> <<>>]

validateProduct(product) ==
    LET errors ==
            (IF Falsy(product.id) THEN <<<<"Product ID is missing">>>> ELSE <<>>)
         \o (IF ~validateProductType(product.productType)
             THEN <<<<"Invalid or missing product type", product.productType>>>>
             ELSE <<>>)
         \o (IF TypeOf(product.profit) # "number"
             THEN <<<<"Profit must be a number">>>> ELSE <<>>)
         \o (IF TypeOf(product.currentAmount) # "number"
             THEN <<<<"Current amount must be a number">>>> ELSE <<>>)
         \o (IF TypeOf(product.investedAmount) # "number"
             THEN <<<<"Invested amount must be a number">>>> ELSE <<>>)
    IN [isValid |-> Len(errors) = 0, errors |-> errors]

\* Variant for which a region may come without a security.
regionErrorsSecurityOptional(region, assetIndex, regionIndex) ==
       (IF Falsy(region.name)
        THEN <<<<"Region name is missing", assetIndex, regionIndex>>>> ELSE <<>>)
    \o (IF Falsy(region.security)
        THEN <<>>
        ELSE (IF Falsy(region.security.isin)
              THEN <<<<"Security ISIN is missing", assetIndex, regionIndex>>>>
              ELSE <<>>)
          \o (IF TypeOf(region.security.count) # "number"
              THEN <<<<"Security count must be a number", assetIndex, regionIndex>>>>
              ELSE <<>>))

\* Errors of one region (lines 72-85); indices are the 0-based forEach indices.
regionErrors(region, assetIndex, regionIndex) ==
       (IF Falsy(region.name)
        THEN <<<<"Region name is missing", assetIndex, regionIndex>>>> ELSE <<>>)
    \o (IF Falsy(region.security)
        THEN <<<<"Security data is missing", assetIndex, regionIndex>>>>
        ELSE (IF Falsy(region.security.isin)
              THEN <<<<"Security ISIN is missing", assetIndex, regionIndex>>>>
              ELSE <<>>)
          \o (IF TypeOf(region.security.count) # "number"
              THEN <<<<"Security count must be a number", assetIndex, regionIndex>>>>
              ELSE <<>>))

\* Variant that stops at the first region found defective.
RECURSIVE regionsErrorsStopAtFirst(_, _, _)
regionsErrorsStopAtFirst(regions, assetIndex, n) ==
    IF n = 0 THEN <<>>
    ELSE LET earlier == regionsErrorsStopAtFirst(regions, assetIndex, n - 1)
         IN IF earlier # <<>> THEN earlier
            ELSE regionErrors(regions[n], assetIndex, n - 1)

\* assetClass.region.forEach(...) over the first n regions.
RECURSIVE regionsErrors(_, _, _)
regionsErrors(regions, assetIndex, n) ==
    IF n = 0 THEN <<>>
    ELSE regionsErrors(regions, assetIndex, n - 1)
         \o regionErrors(regions[n], assetIndex, n - 1)

\* Errors of one asset class (lines 64-87).
assetClassErrors(assetClass, assetIndex) ==
       (IF Falsy(assetClass.name)
        THEN <<<<"Asset class name is missing", assetIndex>>>> ELSE <<>>)
    \o (IF Falsy(assetClass.region) \/ ~IsArray(assetClass.region)
        THEN <<<<"Region data is missing or invalid", assetIndex>>>>
        ELSE regionsErrors(assetClass.region.v, assetIndex, Len(assetClass.region.v)))

\* allocation.allocation.assetClass.forEach(...) over the first n asset classes.
RECURSIVE assetClassesErrors(_, _)
assetClassesErrors(assetClasses, n) ==
    IF n = 0 THEN <<>>
    ELSE assetClassesErrors(assetClasses, n - 1)
         \o assetClassErrors(assetClasses[n], n - 1)

\* Variant that also returns at once when the id is missing.
validateAllocationFailsFastOnId(allocation) ==
    IF Falsy(allocation.id)
    THEN [isValid |-> FALSE, errors |-> <<<<"Allocation ID is missing">>>>]
    ELSE IF Falsy(allocation.allocation)
    THEN [isValid |-> FALSE, errors |-> <<<<"Allocation data is missing">>>>]
    ELSE LET ac == allocation.allocation.assetClass
             errors ==
                 IF Falsy(ac) \/ ~IsArray(ac)
                 THEN <<<<"Asset class data is missing or invalid">>>>
                 ELSE assetClassesErrors(ac.v, Len(ac.v))
         IN [isValid |-> Len(errors) = 0, errors |-> errors]

validateAllocation(allocation) ==
    LET idErrors ==
            IF Falsy(allocation.id) THEN <<<<"Allocation ID is missing">>>> ELSE <<>>
    IN IF Falsy(allocation.allocation)
       THEN [isValid |-> FALSE,
             errors |-> idErrors \o <<<<"Allocation data is missing">>>>]
       ELSE LET ac == allocation.allocation.assetClass
                errors ==
                    idErrors
                 \o (IF Falsy(ac) \/ ~IsArray(ac)
                     THEN <<<<"Asset class data is missing or invalid">>>>
                     ELSE assetClassesErrors(ac.v, Len(ac.v)))
            IN [isValid |-> Len(errors) = 0, errors |-> errors]

\* Variant of the first loop: product n is compared with allocation n.
RECURSIVE pairingOrphanProductsPositional(_, _, _)
pairingOrphanProductsPositional(prods, allocationIds, n) ==
    IF n = 0 THEN <<>>
    ELSE LET m == pairingOrphanProductsPositional(prods, allocationIds, n - 1)
             product == prods[n]
         IN IF ~(n <= Len(allocationIds) /\ allocationIds[n] = product.id)
            THEN MapSet(m, product.id,
                        [isValid |-> FALSE,
                         errors |-> <<<<"Product", product.id,
                                       "has no corresponding allocation data">>>>])
            ELSE m

\* First loop of validateDataPairing: products without allocations.
RECURSIVE pairingOrphanProducts(_, _, _)
pairingOrphanProducts(prods, allocationIds, n) ==
    IF n = 0 THEN <<>>
    ELSE LET m == pairingOrphanProducts(prods, allocationIds, n - 1)
             product == prods[n]
         IN IF ~SetHas(allocationIds, product.id)
            THEN MapSet(m, product.id,
                        [isValid |-> FALSE,
                         errors |-> <<<<"Product", product.id,
                                       "has no corresponding allocation data">>>>])
            ELSE m

\* Variant without the second loop.
pairingOrphanAllocationsSkipped(m0, allocs, productIds, n) == m0

\* Second loop: allocations without products.
RECURSIVE pairingOrphanAllocations(_, _, _, _)
pairingOrphanAllocations(m0, allocs, productIds, n) ==
    IF n = 0 THEN m0
    ELSE LET m == pairingOrphanAllocations(m0, allocs, productIds, n - 1)
             allocation == allocs[n]
         IN IF ~SetHas(productIds, allocation.id)
            THEN MapSet(m, allocation.id,
                        [isValid |-> FALSE,
                         errors |-> <<<<"Allocation", allocation.id,
                                       "has no corresponding product data">>>>])
            ELSE m

\* Third loop: mark valid pairs, iterating the productIds set.
RECURSIVE pairingValidPairs(_, _, _, _)
pairingValidPairs(m0, productIds, allocationIds, n) ==
    IF n = 0 THEN m0
    ELSE LET m == pairingValidPairs(m0, productIds, allocationIds, n - 1)
             id == productIds[n]
         IN IF SetHas(allocationIds, id) /\ ~MapHas(m, id)
            THEN MapSet(m, id, [isValid |-> TRUE, errors |-> <<>>])
            ELSE m

validateDataPairing(prods, allocs) ==
    LET productIds == NewSet(Ids(prods))
        allocationIds == NewSet(Ids(allocs))
        m1 == pairingOrphanProducts(prods, allocationIds, Len(prods))
        m2 == pairingOrphanAllocations(m1, allocs, productIds, Len(allocs))
    IN pairingValidPairs(m2, productIds, allocationIds, Len(productIds))

(***************************************************************************)
(* DataProcessingService                                                   *)
(***************************************************************************)
\* Variant that puts each row in front (unshift instead of push).
RECURSIVE regionRowsUnshift(_, _, _, _)
regionRowsUnshift(allocation, assetClass, regions, n) ==
    IF n = 0 THEN <<>>
    ELSE LET region == regions[n]
         IN (IF Falsy(region.security) THEN <<>>
             ELSE <<[productId |-> allocation.id,
                     assetClass |-> assetClass.name,
                     region |-> region.name,
                     securityIsin |-> region.security.isin,
                     securityCount |-> region.security.count]>>)
            \o regionRowsUnshift(allocation, assetClass, regions, n - 1)

\* assetClass.region.forEach(...) over the first n regions (lines 99-109).
RECURSIVE regionRows(_, _, _, _)
regionRows(allocation, assetClass, regions, n) ==
    IF n = 0 THEN <<>>
    ELSE LET region == regions[n]
         IN regionRows(allocation, assetClass, regions, n - 1)
            \o (IF Falsy(region.security) THEN <<>>
                ELSE <<[productId |-> allocation.id,
                        assetClass |-> assetClass.name,
                        region |-> region.name,
                        securityIsin |-> region.security.isin,
                        securityCount |-> region.security.count]>>)

\* allocation.allocation.assetClass.forEach(...) over the first n asset classes.
RECURSIVE assetClassRows(_, _, _)
assetClassRows(allocation, assetClasses, n) ==
    IF n = 0 THEN <<>>
    ELSE LET assetClass == assetClasses[n]
         IN assetClassRows(allocation, assetClasses, n - 1)
            \o (IF Falsy(assetClass.region) THEN <<>>
                ELSE regionRows(allocation, assetClass, assetClass.region.v,
                                Len(assetClass.region.v)))

processAllocations(allocation) ==
    IF Falsy(allocation.allocation) \/ Falsy(allocation.allocation.assetClass)
    THEN <<>>
    ELSE assetClassRows(allocation, allocation.allocation.assetClass.v,
                        Len(allocation.allocation.assetClass.v))

\* allocations.forEach(a => allocationMap.set(a.id, a)) over the first n.
RECURSIVE buildAllocationMap(_, _)
buildAllocationMap(allocs, n) ==
    IF n = 0 THEN <<>>
    ELSE MapSet(buildAllocationMap(allocs, n - 1), allocs[n].id, allocs[n])

\* Variant with the two amounts exchanged.
processedProductAmountsSwapped(product, processedAllocations) ==
    [id |-> product.id,
     type |-> product.productType,
     profit |-> product.profit,
     currentAmount |-> product.investedAmount,
     investedAmount |-> product.currentAmount,
     allocations |-> processedAllocations]

\* The entity built from a product and its flattened rows (lines 179-186).
processedProduct(product, processedAllocations) ==
    [id |-> product.id,
     type |-> product.productType,
     profit |-> product.profit,
     currentAmount |-> product.currentAmount,
     investedAmount |-> product.investedAmount,
     allocations |-> processedAllocations]

\* Variant without the validateProduct check.
mergeOneUnvalidated(product, allocationMap, pairingValidation) ==
    LET pairingResult == MapGet(pairingValidation, product.id)
    IN IF pairingResult = Undefined \/ ~pairingResult.isValid THEN <<>>
       ELSE LET allocation == MapGet(allocationMap, product.id)
            IN IF allocation = Undefined THEN <<>>
               ELSE IF ~validateAllocation(allocation).isValid THEN <<>>
               ELSE IF Len(processAllocations(allocation)) = 0 THEN <<>>
               ELSE <<processedProduct(product, processAllocations(allocation))>>

\* Variant without the check for an empty flattened list.
mergeOneKeepsEmpty(product, allocationMap, pairingValidation) ==
    LET pairingResult == MapGet(pairingValidation, product.id)
    IN IF pairingResult = Undefined \/ ~pairingResult.isValid THEN <<>>
       ELSE IF ~validateProduct(product).isValid THEN <<>>
       ELSE LET allocation == MapGet(allocationMap, product.id)
            IN IF allocation = Undefined THEN <<>>
               ELSE IF ~validateAllocation(allocation).isValid THEN <<>>
               ELSE <<processedProduct(product, processAllocations(allocation))>>

\* What the body of products.forEach pushes for one product (lines 131-186).
mergeOne(product, allocationMap, pairingValidation) ==
    LET pairingResult == MapGet(pairingValidation, product.id)
    IN IF pairingResult = Undefined \/ ~pairingResult.isValid THEN <<>>
       ELSE IF ~validateProduct(product).isValid THEN <<>>
       ELSE LET allocation == MapGet(allocationMap, product.id)
            IN IF allocation = Undefined THEN <<>>
               ELSE IF ~validateAllocation(allocation).isValid THEN <<>>
               ELSE LET processedAllocations == processAllocations(allocation)
                    IN IF Len(processedAllocations) = 0 THEN <<>>
                       ELSE <<processedProduct(product, processedAllocations)>>

\* Variant that puts each entity in front (unshift instead of push).
RECURSIVE mergeLoopUnshift(_, _, _, _)
mergeLoopUnshift(prods, allocationMap, pairingValidation, n) ==
    IF n = 0 THEN <<>>
    ELSE mergeOne(prods[n], allocationMap, pairingValidation)
         \o mergeLoopUnshift(prods, allocationMap, pairingValidation, n - 1)

\* Variant in which a rejected product ends the loop with nothing kept
\* (a `return` of the whole method where the callback's `return` stands).
RECURSIVE mergeLoopAbortsOnReject(_, _, _, _)
mergeLoopAbortsOnReject(prods, allocationMap, pairingValidation, n) ==
    IF n = 0 THEN <<>>
    ELSE IF mergeOne(prods[n], allocationMap, pairingValidation) = <<>>
         THEN <<>>
         ELSE mergeLoopAbortsOnReject(prods, allocationMap, pairingValidation, n - 1)
              \o mergeOne(prods[n], allocationMap, pairingValidation)

\* products.forEach(...) over the first n products, pushing in order.
RECURSIVE mergeLoop(_, _, _, _)
mergeLoop(prods, allocationMap, pairingValidation, n) ==
    IF n = 0 THEN <<>>
    ELSE mergeLoop(prods, allocationMap, pairingValidation, n - 1)
         \o mergeOne(prods[n], allocationMap, pairingValidation)

mergeProductAndAllocations(prods, allocs) ==
    mergeLoop(prods, buildAllocationMap(allocs, Len(allocs)),
              validateDataPairing(prods, allocs), Len(prods))

(***************************************************************************)
(* SyncService and the database                                            *)
(***************************************************************************)
EmptyTables == [products |-> {}, allocations |-> {}]
NoTx == [open |-> FALSE, products |-> {}, allocations |-> {}]

\* prismaClient.$transaction(...): the callback works on its own view.
beginTransaction(st) ==
    [open |-> TRUE, products |-> st.products, allocations |-> st.allocations]

\* Variant that leaves the product rows in place.
deleteManyProductsSkipped(t) == t

\* Variant of the first delete that takes the product rows while their
\* allocation rows are still there.
deleteManyAllocationsParentsFirst(t) == [t EXCEPT !.products = {}]

deleteManyAllocations(t) == [t EXCEPT !.allocations = {}]
deleteManyProducts(t) == [t EXCEPT !.products = {}]

\* data of tx.product.create (lines 31-37)
productData(product) ==
    [id |-> product.id, type |-> product.type, profit |-> product.profit,
     currentAmount |-> product.currentAmount,
     investedAmount |-> product.investedAmount]

\* The template string of the allocation row id (line 47).
allocationId(allocation) ==
    Str(Template(allocation.productId) \o <<"_">>
        \o Template(allocation.assetClass) \o <<"_">>
        \o Template(allocation.region) \o <<"_">>
        \o Template(allocation.securityIsin))

\* data of tx.allocation.create (lines 46-53)
allocationData(allocation) ==
    [id |-> allocationId(allocation),
     productId |-> allocation.productId,
     assetClass |-> allocation.assetClass,
     region |-> allocation.region,
     securityIsin |-> allocation.securityIsin,
     securityCount |-> allocation.securityCount]

\* The primary key of a table: create fails on an id already present.
uniqueViolation(table, row) == \E r \in table : r.id = row.id

txCreateProduct(t, product) ==
    [t EXCEPT !.products = @ \cup {productData(product)}]

\* Variant that writes no allocation row.
txCreateAllocationDropped(t, allocation) == t

txCreateAllocation(t, allocation) ==
    [t EXCEPT !.allocations = @ \cup {allocationData(allocation)}]

\* Variant of the write that adds the new profit to the one stored for the
\* same id instead of superseding the row.
commitAccumulating(st, t) ==
    [products |->
         {IF \E old \in st.products : old.id = p.id
          THEN [p EXCEPT !.profit =
                    Num(@.v + (CHOOSE old \in st.products : old.id = p.id).profit.v)]
          ELSE p : p \in t.products},
     allocations |-> t.allocations]

\* Variant in which the error is swallowed and the work done so far stays.
rollbackKeepsWork(st, t) == [products |-> t.products, allocations |-> t.allocations]

\* Variant that adds the transaction's rows to the committed tables as
\* they are at the commit instead of putting its view in their place.
commitOnTop(st, t) ==
    [products |-> st.products \cup t.products,
     allocations |-> st.allocations \cup t.allocations]

\* The transaction callback returned: prisma commits its view.
commit(st, t) == [products |-> t.products, allocations |-> t.allocations]

\* The transaction callback threw (`throw error` at lines 70 and 86): prisma
\* rolls back, the committed tables stay as they were.
rollback(st, t) == st

\* The position after the allocation j of product i has been created
\* (j = 0: after the product row itself).
nextPos(procs, ii, jj) ==
    IF jj < Len(procs[ii].allocations)
    THEN [i |-> ii, j |-> jj + 1]
    ELSE [i |-> ii + 1, j |-> 0]

\* Variant that sorts by id descending.
RECURSIVE sortByIdDescending(_)
sortByIdDescending(rows) ==
    IF rows = {} THEN <<>>
    ELSE LET first == CHOOSE x \in rows : \A y \in rows : ~StrLess(x.id.v, y.id.v)
         IN <<first>> \o sortByIdDescending(rows \ {first})

\* Rows sorted by id ascending (orderBy: { id: "asc" }).
RECURSIVE sortById(_)
sortById(rows) ==
    IF rows = {} THEN <<>>
    ELSE LET first == CHOOSE x \in rows : \A y \in rows : ~StrLess(y.id.v, x.id.v)
         IN <<first>> \o sortById(rows \ {first})

\* include: { allocations: true }.  Prisma gives the included rows no
\* order, so they are attached as a set.
withAllocations(st, p) ==
    [id |-> p.id, type |-> p.type, profit |-> p.profit,
     currentAmount |-> p.currentAmount, investedAmount |-> p.investedAmount,
     allocations |-> {a \in st.allocations : a.productId = p.id}]

getProductsWithAllocations(st) ==
    LET sorted == sortById(st.products)
    IN [n \in 1..Len(sorted) |-> withAllocations(st, sorted[n])]

(***************************************************************************)
(* Input data the dataX API can serve.                                     *)
(***************************************************************************)
ID1 == Str(<<"p", "1">>)
ID2 == Str(<<"p", "2">>)

Product(id, productType, profit) ==
    [id |-> id, productType |-> productType, profit |-> profit,
     currentAmount |-> Num(5), investedAmount |-> Num(4)]

Region(name, security) == [name |-> name, security |-> security]
Security(isin, count) == [t |-> "object", isin |-> isin, count |-> count]
AssetClass(name, region) == [name |-> name, region |-> region]
Allocation(id, allocation) == [id |-> id, allocation |-> allocation]
Tree(assetClass) ==
    [t |-> "object", name |-> Str(<<"E", "T", "F">>), assetClass |-> assetClass]

US == Region(Str(<<"U", "S">>), Security(Str(<<"X", "1">>), Num(1)))
EU == Region(Str(<<"E", "U">>), Security(Str(<<"Y", "2">>), Num(2)))
EUbare == Region(Str(<<"E", "U">>), Undefined)
USmore == Region(Str(<<"U", "S">>), Security(Str(<<"X", "1">>), Num(2)))

P1 == Product(ID1, WEALTH, Num(1))
P2 == Product(ID2, PRIVATE_EQUITY, Num(-2))
P2bad == Product(ID2, Str(<<"X">>), Undefined)
P0 == Product(Undefined, WEALTH, Num(1))

\* one asset class, one region
T1 == Allocation(ID1, Tree(Arr(<<AssetClass(Str(<<"S">>), Arr(<<US>>))>>)))
\* two asset classes with two regions each
T2 == Allocation(ID2, Tree(Arr(<<AssetClass(Str(<<"S">>), Arr(<<US, EU>>)),
                                 AssetClass(Str(<<"B">>), Arr(<<US, EU>>))>>)))
\* no asset class at all
T1empty == Allocation(ID1, Tree(Arr(<<>>)))
\* a region without a security, and an asset class without a region list
T1bare == Allocation(ID1, Tree(Arr(<<AssetClass(Str(<<"S">>), Arr(<<US, EUbare>>)),
                                     AssetClass(Str(<<"B">>), Undefined)>>)))
\* a region without a security, nothing else wrong
T1nosec == Allocation(ID1, Tree(Arr(<<AssetClass(Str(<<"S">>), Arr(<<US, EUbare>>))>>)))
\* the same security listed twice under one asset class and region name
T1twice == Allocation(ID1, Tree(Arr(<<AssetClass(Str(<<"S">>), Arr(<<US, USmore>>))>>)))
\* no payload
T2none == Allocation(ID2, Undefined)

ProductPool == {P1, P2, P2bad, P0}
AllocationPool == {T1, T2, T1empty, T1bare, T1nosec, T1twice, T2none}

\* The data of the sync runs: fewer shapes, the store is what varies there.
SyncProductPool == {P1, P2, P2bad}
SyncAllocationPool == {T1, T2, T1empty}

SeqsUpTo(S, n) == UNION {[1..k -> S] : k \in 0..n}

Sources ==
    [products : SeqsUpTo(SyncProductPool, MaxProducts),
     allocations : SeqsUpTo(SyncAllocationPool, MaxAllocations)]

(***************************************************************************)
(* Initial state: an empty database, no request in progress.               *)
(***************************************************************************)
\* No error: the value of an error slot nothing was thrown into.
NoError == [t |-> "undefined"]
NoErrors == [allocations |-> NoError, products |-> NoError]
NoRejections == [allocations |-> NoError, products |-> NoError,
                 promiseAll |-> NoError, fetchAllData |-> NoError]

\* new Error(`Failed to fetch ${what}: ${status} ...`) thrown on !response.ok.
HttpError(what, status) ==
    [t |-> "object", name |-> "Error",
     message |-> <<"Failed to fetch", what, status>>]

\* What fetch() itself throws when the API cannot be reached.
NetworkError == [t |-> "object", name |-> "TypeError", message |-> <<"fetch failed">>]

\* The transport errors of the runs, one of each kind: the allocations
\* endpoint answers with a non-success status, the products endpoint cannot
\* be reached.
TransportErrors(what) ==
    IF what = "allocations" THEN {HttpError(what, 500)} ELSE {NetworkError}

\* catch (error) { ...; throw error } of the three methods.
fetchAllocationsCatch(error) == error
fetchProductsCatch(error) == error

\* Variant that throws a new error naming the failed operation.
fetchAllDataCatchWrapping(error) ==
    [t |-> "object", name |-> "Error",
     message |-> <<"Error fetching data from dataX">>]

fetchAllDataCatch(error) == error

\* Promise.all rejects with the first rejection among its promises; later
\* rejections are ignored.
promiseAll(rej, what) ==
    IF rej.promiseAll = NoError
    THEN [rej EXCEPT !.promiseAll = rej[what]]
    ELSE rej

NoResult == [success |-> FALSE, productsProcessed |-> 0,
             allocationsProcessed |-> 0, errors |-> <<>>]
NoResponse == [status |-> 0]
NoListing == [t |-> "undefined"]

\* No second request.
NoOther ==
    [pc |-> "idle", processedProducts |-> <<>>, tx |-> NoTx,
     committed |-> FALSE, overlapped |-> FALSE]

Idle ==
    /\ tx = NoTx
    /\ other = NoOther
    /\ pc = "idle"
    /\ fetchA = "none" /\ fetchP = "none"
    /\ processedProducts = <<>>
    /\ i = 0 /\ j = 0
    /\ result = NoResult
    /\ response = NoResponse
    /\ faulted = FALSE
    /\ raised = NoErrors
    /\ rejected = NoRejections
    /\ before = EmptyTables
    /\ hist = <<>>
    /\ listed = NoListing
    /\ call = "none"
    /\ pairing = <<>>
    /\ flat = <<>>
    /\ flatOf = Undefined
    /\ validation = Undefined

\* The tables after saveProductsToDatabase(procs) committed on any content.
RECURSIVE savedAllocations(_, _)
savedAllocations(rows, n) ==
    IF n = 0 THEN {}
    ELSE savedAllocations(rows, n - 1) \cup {allocationData(rows[n])}

RECURSIVE savedTables(_, _)
savedTables(procs, n) ==
    IF n = 0 THEN EmptyTables
    ELSE LET prior == savedTables(procs, n - 1)
         IN [products |-> prior.products \cup {productData(procs[n])},
             allocations |-> prior.allocations
                 \cup savedAllocations(procs[n].allocations,
                                       Len(procs[n].allocations))]

\* The database outlives the server: it starts empty or holds what a sync of
\* earlier dataX data committed.
EarlierSources ==
    {[products |-> <<P1>>, allocations |-> <<T1>>],
     [products |-> <<P2>>, allocations |-> <<T2>>],
     [products |-> <<P2, P1>>, allocations |-> <<T1, T2>>]}

EarlierStores ==
    {EmptyTables} \cup
    {LET procs == mergeProductAndAllocations(s.products, s.allocations)
     IN savedTables(procs, Len(procs)) : s \in EarlierSources}

Init ==
    /\ Idle
    /\ source \in Sources
    /\ store \in EarlierStores
    /\ products = <<>>
    /\ allocations = <<>>
    /\ validated = Undefined

(***************************************************************************)
(* GET /sync                                                               *)
(***************************************************************************)
pureVars == <<call, pairing, flat, flatOf, validated, validation>>

\* The read-back right after a fault-free run, kept for the last two.
Remember(h, st) ==
    LET all == Append(h, getProductsWithAllocations(st))
    IN IF Len(all) > 2 THEN Tail(all) ELSE all

\* The handler responds; the read-back is remembered if the run hit no fault.
Respond(resp, st, wasFaulted) ==
    /\ response' = resp
    /\ pc' = "done"
    /\ hist' = IF wasFaulted THEN hist ELSE Remember(hist, st)

\* The catch block of the handler (lines 68-78).
SyncFailed == [status |-> 500, success |-> FALSE, message |-> "Sync process failed"]

\* The early return on an empty merge (lines 32-43).
NoValidProducts ==
    [status |-> 400, success |-> FALSE,
     message |-> "No valid products found to sync",
     productsProcessed |-> 0, allocationsProcessed |-> 0]

\* Variant that reports success only if no fetched product was skipped.
SyncCompletedAllOrNothing(r) ==
    [status |-> 200,
     success |-> r.success /\ r.productsProcessed = Len(products),
     message |-> IF r.success /\ r.productsProcessed = Len(products)
                 THEN "Sync completed successfully" ELSE "Sync failed",
     productsProcessed |-> r.productsProcessed,
     allocationsProcessed |-> r.allocationsProcessed,
     errors |-> r.errors]

\* The response built from the SyncResult (lines 59-67).
SyncCompleted(r) ==
    [status |-> 200, success |-> r.success,
     message |-> IF r.success THEN "Sync completed successfully" ELSE "Sync failed",
     productsProcessed |-> r.productsProcessed,
     allocationsProcessed |-> r.allocationsProcessed,
     errors |-> r.errors]

\* The request arrives; fetchAllData issues both fetches (Promise.all).
SyncStart ==
    /\ pc = "idle"
    /\ pc' = "fetching"
    /\ fetchA' = "pending" /\ fetchP' = "pending"
    /\ response' = NoResponse
    /\ faulted' = FALSE
    /\ listed' = NoListing
    /\ UNCHANGED <<source, store, tx, products, allocations, processedProducts,
                   i, j, result, hist>>
    /\ before' = store
    /\ raised' = NoErrors /\ rejected' = NoRejections
    /\ UNCHANGED pureVars
    /\ UNCHANGED other

FetchAllocationsOk ==
    /\ pc = "fetching" /\ fetchA = "pending"
    /\ fetchA' = "ok"
    /\ allocations' = source.allocations
    /\ listed' = NoListing
    /\ UNCHANGED <<source, store, tx, pc, fetchP, products, processedProducts,
                   i, j, result, response, faulted, hist>>
    /\ UNCHANGED <<before, call, pairing, flat, flatOf, validated, validation,
                   raised, rejected, other>>

FetchAllocationsFail ==
    /\ pc = "fetching" /\ fetchA = "pending"
    /\ \E error \in TransportErrors("allocations") :
           /\ raised' = [raised EXCEPT !.allocations = error]
           /\ rejected' = promiseAll([rejected EXCEPT !.allocations = fetchAllocationsCatch(error)],
                                     "allocations")
    /\ fetchA' = "err"
    /\ faulted' = TRUE
    /\ listed' = NoListing
    /\ UNCHANGED <<source, store, tx, pc, fetchP, products, allocations,
                   processedProducts, i, j, result, response, hist>>
    /\ UNCHANGED <<before, call, pairing, flat, flatOf, validated, validation, other>>

FetchProductsOk ==
    /\ pc = "fetching" /\ fetchP = "pending"
    /\ fetchP' = "ok"
    /\ products' = source.products
    /\ listed' = NoListing
    /\ UNCHANGED <<source, store, tx, pc, fetchA, allocations, processedProducts,
                   i, j, result, response, faulted, hist>>
    /\ UNCHANGED <<before, call, pairing, flat, flatOf, validated, validation,
                   raised, rejected, other>>

FetchProductsFail ==
    /\ pc = "fetching" /\ fetchP = "pending"
    /\ \E error \in TransportErrors("products") :
           /\ raised' = [raised EXCEPT !.products = error]
           /\ rejected' = promiseAll([rejected EXCEPT !.products = fetchProductsCatch(error)],
                                     "products")
    /\ fetchP' = "err"
    /\ faulted' = TRUE
    /\ listed' = NoListing
    /\ UNCHANGED <<source, store, tx, pc, fetchA, products, allocations,
                   processedProducts, i, j, result, response, hist>>
    /\ UNCHANGED <<before, call, pairing, flat, flatOf, validated, validation, other>>

\* Variant of the join that rejects only once both fetches have failed.
FetchAllDataRejectNeedsBoth ==
    /\ pc = "fetching"
    /\ fetchA = "err" /\ fetchP = "err"
    /\ Respond(SyncFailed, store, TRUE)
    /\ fetchA' = "none" /\ fetchP' = "none"
    /\ listed' = NoListing
    /\ rejected' = [rejected EXCEPT !.fetchAllData = fetchAllDataCatch(rejected.promiseAll)]
    /\ UNCHANGED raised
    /\ UNCHANGED <<source, store, tx, products, allocations, processedProducts,
                   i, j, result, faulted>>
    /\ UNCHANGED <<before, call, pairing, flat, flatOf, validated, validation, other>>

\* Promise.all rejects as soon as one fetch has failed; the handler's catch
\* block answers 500.  A fetch still pending is no longer waited for.
FetchAllDataReject ==
    /\ pc = "fetching"
    /\ fetchA = "err" \/ fetchP = "err"
    /\ Respond(SyncFailed, store, TRUE)
    /\ fetchA' = "none" /\ fetchP' = "none"
    /\ listed' = NoListing
    /\ rejected' = [rejected EXCEPT !.fetchAllData = fetchAllDataCatch(rejected.promiseAll)]
    /\ UNCHANGED raised
    /\ UNCHANGED <<source, store, tx, products, allocations, processedProducts,
                   i, j, result, faulted>>
    /\ UNCHANGED <<before, call, pairing, flat, flatOf, validated, validation, other>>

\* Variant that does not join the fetches: a failed or pending allocations
\* fetch counts as an empty array (Promise.allSettled with a default).
SyncNoValidProductsUnjoined ==
    /\ pc = "fetching" /\ fetchP = "ok"
    /\ mergeProductAndAllocations(products, allocations) = <<>>
    /\ processedProducts' = <<>>
    /\ Respond(NoValidProducts, store, faulted)
    /\ fetchA' = "none" /\ fetchP' = "none"
    /\ listed' = NoListing
    /\ UNCHANGED <<source, store, tx, products, allocations, i, j, result, faulted>>
    /\ UNCHANGED <<before, call, pairing, flat, flatOf, validated, validation,
                   raised, rejected, other>>

\* Both fetches resolved: merge; nothing to sync answers 400 at once.
SyncNoValidProducts ==
    /\ pc = "fetching" /\ fetchA = "ok" /\ fetchP = "ok"
    /\ mergeProductAndAllocations(products, allocations) = <<>>
    /\ processedProducts' = <<>>
    /\ Respond(NoValidProducts, store, faulted)
    /\ fetchA' = "none" /\ fetchP' = "none"
    /\ listed' = NoListing
    /\ UNCHANGED <<source, store, tx, products, allocations, i, j, result, faulted>>
    /\ UNCHANGED <<before, call, pairing, flat, flatOf, validated, validation,
                   raised, rejected, other>>

\* Variant without the early return on an empty merge: the save is called
\* whatever the merge gave.
SyncSaveAlways ==
    /\ pc = "fetching" /\ fetchA = "ok" /\ fetchP = "ok"
    /\ processedProducts' = mergeProductAndAllocations(products, allocations)
    /\ result' = NoResult
    /\ tx' = beginTransaction(store)
    /\ pc' = "deleteAllocations"
    /\ fetchA' = "none" /\ fetchP' = "none"
    /\ listed' = NoListing
    /\ UNCHANGED <<source, store, products, allocations, i, j, response,
                   faulted, hist>>
    /\ UNCHANGED <<before, call, pairing, flat, flatOf, validated, validation,
                   raised, rejected, other>>

\* Both fetches resolved: merge, then saveProductsToDatabase opens the
\* transaction (up to its first await).
SyncSave ==
    /\ pc = "fetching" /\ fetchA = "ok" /\ fetchP = "ok"
    /\ mergeProductAndAllocations(products, allocations) # <<>>
    /\ processedProducts' = mergeProductAndAllocations(products, allocations)
    /\ result' = NoResult
    /\ tx' = beginTransaction(store)
    /\ pc' = "deleteAllocations"
    /\ fetchA' = "none" /\ fetchP' = "none"
    /\ listed' = NoListing
    /\ UNCHANGED <<source, store, products, allocations, i, j, response,
                   faulted, hist>>
    /\ UNCHANGED <<before, call, pairing, flat, flatOf, validated, validation,
                   raised, rejected, other>>

\* Variant whose first delete is issued outside the transaction, straight
\* on the committed tables.
TxDeleteAllocationsUnisolated ==
    /\ pc = "deleteAllocations"
    /\ tx' = deleteManyAllocations(tx)
    /\ store' = [store EXCEPT !.allocations = {}]
    /\ pc' = "deleteProducts"
    /\ listed' = NoListing
    /\ UNCHANGED <<source, fetchA, fetchP, products, allocations,
                   processedProducts, i, j, result, response, faulted, hist>>
    /\ UNCHANGED <<before, call, pairing, flat, flatOf, validated, validation,
                   raised, rejected, other>>

TxDeleteAllocations ==
    /\ pc = "deleteAllocations"
    /\ tx' = deleteManyAllocations(tx)
    /\ pc' = "deleteProducts"
    /\ listed' = NoListing
    /\ UNCHANGED <<source, store, fetchA, fetchP, products, allocations,
                   processedProducts, i, j, result, response, faulted, hist>>
    /\ UNCHANGED <<before, call, pairing, flat, flatOf, validated, validation,
                   raised, rejected, other>>

TxDeleteProducts ==
    /\ pc = "deleteProducts"
    /\ tx' = deleteManyProducts(tx)
    /\ pc' = "create"
    /\ i' = 1 /\ j' = 0
    /\ listed' = NoListing
    /\ UNCHANGED <<source, store, fetchA, fetchP, products, allocations,
                   processedProducts, result, response, faulted, hist>>
    /\ UNCHANGED <<before, call, pairing, flat, flatOf, validated, validation,
                   raised, rejected, other>>

\* saveProductsToDatabase throws: the transaction is rolled back, the
\* handler's catch block answers 500.
SaveThrows(messages, wasFaulted) ==
    /\ store' = rollback(store, tx)
    /\ tx' = NoTx
    /\ result' = [result EXCEPT !.errors = @ \o messages]
    /\ faulted' = wasFaulted
    /\ Respond(SyncFailed, store', wasFaulted)
    /\ i' = 0 /\ j' = 0
    /\ listed' = NoListing
    /\ UNCHANGED <<source, fetchA, fetchP, products, allocations, processedProducts>>
    /\ UNCHANGED <<before, call, pairing, flat, flatOf, validated, validation,
                   raised, rejected, other>>

\* tx.product.create of product i succeeds.
TxCreateProduct ==
    /\ pc = "create" /\ i <= Len(processedProducts) /\ j = 0
    /\ ~uniqueViolation(tx.products, productData(processedProducts[i]))
    /\ tx' = txCreateProduct(tx, processedProducts[i])
    /\ result' = [result EXCEPT !.productsProcessed = @ + 1]
    /\ i' = nextPos(processedProducts, i, j).i
    /\ j' = nextPos(processedProducts, i, j).j
    /\ listed' = NoListing
    /\ UNCHANGED <<source, store, pc, fetchA, fetchP, products, allocations,
                   processedProducts, response, faulted, hist>>
    /\ UNCHANGED <<before, call, pairing, flat, flatOf, validated, validation,
                   raised, rejected, other>>

\* Variant that counts the allocations once per product, when its first
\* row is created, instead of once per row.
TxCreateAllocationCountedOnce ==
    /\ pc = "create" /\ i <= Len(processedProducts) /\ j >= 1
    /\ ~uniqueViolation(tx.allocations,
                        allocationData(processedProducts[i].allocations[j]))
    /\ tx' = txCreateAllocation(tx, processedProducts[i].allocations[j])
    /\ result' = [result EXCEPT !.allocationsProcessed = IF j = 1 THEN @ + 1 ELSE @]
    /\ i' = nextPos(processedProducts, i, j).i
    /\ j' = nextPos(processedProducts, i, j).j
    /\ listed' = NoListing
    /\ UNCHANGED <<source, store, pc, fetchA, fetchP, products, allocations,
                   processedProducts, response, faulted, hist>>
    /\ UNCHANGED <<before, call, pairing, flat, flatOf, validated, validation,
                   raised, rejected, other>>

\* tx.allocation.create of allocation j of product i succeeds.
TxCreateAllocation ==
    /\ pc = "create" /\ i <= Len(processedProducts) /\ j >= 1
    /\ ~uniqueViolation(tx.allocations,
                        allocationData(processedProducts[i].allocations[j]))
    /\ tx' = txCreateAllocation(tx, processedProducts[i].allocations[j])
    /\ result' = [result EXCEPT !.allocationsProcessed = @ + 1]
    /\ i' = nextPos(processedProducts, i, j).i
    /\ j' = nextPos(processedProducts, i, j).j
    /\ listed' = NoListing
    /\ UNCHANGED <<source, store, pc, fetchA, fetchP, products, allocations,
                   processedProducts, response, faulted, hist>>
    /\ UNCHANGED <<before, call, pairing, flat, flatOf, validated, validation,
                   raised, rejected, other>>

\* A create hits the primary key: the inner catch records the product and
\* rethrows, the outer catch records the transaction failure and rethrows.
TxCreateRejected ==
    /\ pc = "create" /\ i <= Len(processedProducts)
    /\ IF j = 0
       THEN uniqueViolation(tx.products, productData(processedProducts[i]))
       ELSE uniqueViolation(tx.allocations,
                            allocationData(processedProducts[i].allocations[j]))
    /\ SaveThrows(<<<<"Failed to save product", processedProducts[i].id>>,
                    <<"Transaction failed">>>>, faulted)

\* The database fails a create (connection lost, disk full, ...).
TxCreateFails ==
    /\ pc = "create" /\ i <= Len(processedProducts)
    /\ SaveThrows(<<<<"Failed to save product", processedProducts[i].id>>,
                    <<"Transaction failed">>>>, TRUE)

\* The database fails a deleteMany: only the outer catch sees it.
TxDeleteFails ==
    /\ pc \in {"deleteAllocations", "deleteProducts"}
    /\ SaveThrows(<<<<"Transaction failed">>>>, TRUE)

\* The callback returned: prisma commits, saveProductsToDatabase returns its
\* result and the handler answers 200.
TxCommit ==
    /\ pc = "create" /\ i > Len(processedProducts)
    /\ store' = commit(store, tx)
    /\ tx' = NoTx
    /\ result' = [result EXCEPT !.success = TRUE]
    /\ Respond(SyncCompleted(result'), store', faulted)
    /\ i' = 0 /\ j' = 0
    /\ listed' = NoListing
    /\ UNCHANGED <<source, fetchA, fetchP, products, allocations,
                   processedProducts, faulted>>
    /\ UNCHANGED <<before, call, pairing, flat, flatOf, validated, validation,
                   raised, rejected, other>>

\* The commit itself fails.
TxCommitFails ==
    /\ pc = "create" /\ i > Len(processedProducts)
    /\ SaveThrows(<<<<"Transaction failed">>>>, TRUE)

\* The request is over; the handler's locals are gone.
SyncEnd ==
    /\ pc = "done"
    /\ pc' = "idle"
    /\ products' = <<>> /\ allocations' = <<>> /\ processedProducts' = <<>>
    /\ result' = NoResult
    /\ response' = NoResponse
    /\ faulted' = FALSE
    /\ listed' = NoListing
    /\ UNCHANGED <<source, store, tx, fetchA, fetchP, i, j, hist>>
    /\ before' = EmptyTables
    /\ raised' = NoErrors /\ rejected' = NoRejections
    /\ UNCHANGED pureVars
    /\ UNCHANGED other

(***************************************************************************)
(* GET /products                                                           *)
(***************************************************************************)
\* The body the handler answers with (lines 90-103).
productsBody(prods) ==
    IF Len(prods) = 0
    THEN [message |-> "No products found. Please run /sync first.",
          products |-> <<>>]
    ELSE [products |-> prods, count |-> Len(prods)]

\* The handler reads the committed tables, whatever GET /sync is doing.
ListEntities ==
    /\ listed' = productsBody(getProductsWithAllocations(store))
    /\ UNCHANGED <<source, store, tx, pc, fetchA, fetchP, products, allocations,
                   processedProducts, i, j, result, response, faulted, hist>>
    /\ UNCHANGED <<before, call, pairing, flat, flatOf, validated, validation,
                   raised, rejected, other>>

Next ==
    \/ SyncStart
    \/ FetchAllocationsOk
    \/ FetchAllocationsFail
    \/ FetchProductsOk
    \/ FetchProductsFail
    \/ FetchAllDataReject
    \/ SyncNoValidProducts
    \/ SyncSave
    \/ TxDeleteAllocations
    \/ TxDeleteProducts
    \/ TxCreateProduct
    \/ TxCreateAllocation
    \/ TxCreateRejected
    \/ TxCreateFails
    \/ TxDeleteFails
    \/ TxCommit
    \/ TxCommitFails
    \/ SyncEnd
    \/ ListEntities

Spec == Init /\ [][Next]_vars

(***************************************************************************)
(* The service methods called directly on given arrays.                    *)
(***************************************************************************)
syncVars == <<source, store, tx, pc, fetchA, fetchP, i, j, result, response,
              faulted, raised, rejected, before, hist, listed, other>>

InitPure ==
    /\ Idle
    /\ source = [products |-> <<>>, allocations |-> <<>>]
    /\ store = EmptyTables
    /\ products \in SeqsUpTo(ProductPool, MaxProducts)
    /\ allocations \in SeqsUpTo(AllocationPool, MaxAllocations)
    /\ validated = Undefined

CallValidateDataPairing ==
    /\ call' = "validateDataPairing"
    /\ pairing' = validateDataPairing(products, allocations)
    /\ processedProducts' = <<>>
    /\ flat' = <<>> /\ flatOf' = Undefined
    /\ UNCHANGED <<products, allocations, validated, validation>>
    /\ UNCHANGED syncVars

CallMergeProductAndAllocations ==
    /\ call' = "mergeProductAndAllocations"
    /\ processedProducts' = mergeProductAndAllocations(products, allocations)
    /\ pairing' = <<>>
    /\ flat' = <<>> /\ flatOf' = Undefined
    /\ UNCHANGED <<products, allocations, validated, validation>>
    /\ UNCHANGED syncVars

CallProcessAllocations ==
    \E n \in 1..Len(allocations) :
        /\ call' = "processAllocations"
        /\ flatOf' = allocations[n]
        /\ flat' = processAllocations(allocations[n])
        /\ pairing' = <<>>
        /\ processedProducts' = <<>>
        /\ UNCHANGED <<products, allocations, validated, validation>>
        /\ UNCHANGED syncVars

NextPure ==
    \/ CallValidateDataPairing
    \/ CallMergeProductAndAllocations
    \/ CallProcessAllocations

SpecPure == InitPure /\ [][NextPure]_vars

(***************************************************************************)
(* The validators called directly on one summary or one allocation.        *)
(***************************************************************************)
MaxAssetClasses == 2   \* most asset classes of a validated tree
MaxRegions == 2        \* most regions of an asset class of a validated tree

\* Summaries as the API can deliver them (DataXProductResponse, each field
\* possibly absent or of another type).
SummaryShapes ==
    [id : {ID1, Undefined, Str(<<>>)},
     productType : {WEALTH, PRIVATE_EQUITY, Str(<<"X">>), Str(<<>>), Undefined},
     profit : {Num(1), Num(0), Str(<<"1">>), Undefined},
     currentAmount : {Num(5), Str(<<"1">>), Undefined},
     investedAmount : {Num(4), Undefined}]

\* The places of a tree of nA asset classes with nR regions each at which
\* a field can be absent or of another type: <<field, asset class, region>>.
Sites(nA, nR) ==
    ({"assetClass.name", "assetClass.region", "assetClass.region:string"}
         \X (1..nA) \X {0})
    \cup ({"region.name", "region.security", "security.isin", "security.count"}
              \X (1..nA) \X (1..nR))

ShapedRegion(D, a, r) ==
    Region(IF <<"region.name", a, r>> \in D THEN Undefined ELSE Str(<<"U", "S">>),
           IF <<"region.security", a, r>> \in D THEN Undefined
           ELSE Security(IF <<"security.isin", a, r>> \in D
                         THEN Str(<<>>) ELSE Str(<<"X", "1">>),
                         IF <<"security.count", a, r>> \in D
                         THEN Str(<<"1">>) ELSE Num(1)))

ShapedAssetClass(D, a, nR) ==
    AssetClass(IF <<"assetClass.name", a, 0>> \in D THEN Undefined ELSE Str(<<"S">>),
               IF <<"assetClass.region", a, 0>> \in D THEN Undefined
               ELSE IF <<"assetClass.region:string", a, 0>> \in D
               THEN Str(<<"U", "S">>)
               ELSE Arr([r \in 1..nR |-> ShapedRegion(D, a, r)]))

\* The tree of nA x nR nodes that is defective at the places D.
ShapedTree(nA, nR, D) == Tree(Arr([a \in 1..nA |-> ShapedAssetClass(D, a, nR)]))

\* The trees of every size that are defective at no, one or two places.
TreeShapes ==
    UNION {{ShapedTree(nA, nR, {s1, s2}) :
                s1, s2 \in Sites(nA, nR) \cup {<<"none", 0, 0>>}} :
           nA \in 0..MaxAssetClasses, nR \in 0..MaxRegions}

\* Allocations as the API can deliver them (DataXAllocationResponse).
AllocationShapes ==
    {Allocation(id, payload) :
        id \in {ID1, Undefined, Str(<<>>)},
        payload \in TreeShapes \cup {Undefined, Tree(Undefined), Tree(Str(<<"S">>))}}

InitValidate ==
    /\ Idle
    /\ source = [products |-> <<>>, allocations |-> <<>>]
    /\ store = EmptyTables
    /\ products = <<>>
    /\ allocations = <<>>
    /\ validated \in SummaryShapes \cup AllocationShapes

CallValidateProduct ==
    /\ "productType" \in DOMAIN validated
    /\ call' = "validateProduct"
    /\ validation' = validateProduct(validated)
    /\ UNCHANGED <<products, allocations, processedProducts, pairing, flat,
                   flatOf, validated>>
    /\ UNCHANGED syncVars

CallValidateAllocation ==
    /\ "allocation" \in DOMAIN validated
    /\ call' = "validateAllocation"
    /\ validation' = validateAllocation(validated)
    /\ UNCHANGED <<products, allocations, processedProducts, pairing, flat,
                   flatOf, validated>>
    /\ UNCHANGED syncVars

NextValidate ==
    \/ CallValidateProduct
    \/ CallValidateAllocation

SpecValidate == InitValidate /\ [][NextValidate]_vars

(***************************************************************************)
(* saveProductsToDatabase called on a given array, as the tests of the     *)
(* service do: the transaction steps are those of the sync run, the array  *)
(* is any merge result, the empty one included.                            *)
(***************************************************************************)
InitSave ==
    /\ Idle
    /\ source = [products |-> <<>>, allocations |-> <<>>]
    /\ store \in EarlierStores
    /\ products = <<>>
    /\ allocations = <<>>
    /\ validated = Undefined

\* Variant with an early return for the empty array: nothing to save, so
\* the transaction is not opened.
CallSaveProductsToDatabaseSkipsEmpty ==
    /\ pc = "idle"
    /\ \E s \in Sources :
           processedProducts' = mergeProductAndAllocations(s.products, s.allocations)
    /\ before' = store
    /\ faulted' = FALSE
    /\ listed' = NoListing
    /\ i' = 0 /\ j' = 0
    /\ IF processedProducts' = <<>>
       THEN /\ result' = [NoResult EXCEPT !.success = TRUE]
            /\ tx' = NoTx
            /\ Respond(SyncCompleted(result'), store, FALSE)
       ELSE /\ result' = NoResult
            /\ tx' = beginTransaction(store)
            /\ pc' = "deleteAllocations"
            /\ response' = NoResponse
            /\ hist' = hist
    /\ UNCHANGED <<source, store, fetchA, fetchP, products, allocations,
                   raised, rejected, other>>
    /\ UNCHANGED pureVars
    /\ UNCHANGED other

\* The method is entered: the result object is created and the transaction
\* opened (lines 9-20), whatever the length of the array.
CallSaveProductsToDatabase ==
    /\ pc = "idle"
    /\ \E s \in Sources :
           processedProducts' = mergeProductAndAllocations(s.products, s.allocations)
    /\ before' = store
    /\ faulted' = FALSE
    /\ listed' = NoListing
    /\ i' = 0 /\ j' = 0
    /\ result' = NoResult
    /\ tx' = beginTransaction(store)
    /\ pc' = "deleteAllocations"
    /\ response' = NoResponse
    /\ hist' = hist
    /\ UNCHANGED <<source, store, fetchA, fetchP, products, allocations,
                   raised, rejected, other>>
    /\ UNCHANGED pureVars
    /\ UNCHANGED other

NextSave ==
    \/ CallSaveProductsToDatabase
    \/ TxDeleteAllocations
    \/ TxDeleteProducts
    \/ TxCreateProduct
    \/ TxCreateAllocation
    \/ TxCreateRejected
    \/ TxCreateFails
    \/ TxDeleteFails
    \/ TxCommit
    \/ TxCommitFails
    \/ SyncEnd
    \/ ListEntities

SpecSave == InitSave /\ [][NextSave]_vars

(***************************************************************************)
(* Two GET /sync requests at the same time.  The first is the request of   *)
(* the actions above, step by step; the second runs the same handler on    *)
(* the data the dataX API serves to it, in three steps: fetched and        *)
(* merged, transaction opened, transaction over.  Each transaction works   *)
(* on its own view of the tables (the callback of $transaction), so the    *)
(* steps inside the second one need no interleaving of their own.          *)
(***************************************************************************)
\* What the API serves to the first request.
OverlapSources ==
    {[products |-> <<P1>>, allocations |-> <<T1>>],
     [products |-> <<P1, P1>>, allocations |-> <<T1>>],
     [products |-> <<P2bad>>, allocations |-> <<T2>>]}

\* The loop over product.allocations (lines 44-57) on the view t.
RECURSIVE txCreateAllocations(_, _, _)
txCreateAllocations(t, rows, n) ==
    IF n = 0 THEN t
    ELSE txCreateAllocation(txCreateAllocations(t, rows, n - 1), rows[n])

\* The callback of $transaction (lines 20-72) on the view t, up to and
\* including the n-th product.
RECURSIVE txSaveProducts(_, _, _)
txSaveProducts(t, procs, n) ==
    IF n = 0 THEN deleteManyProducts(deleteManyAllocations(t))
    ELSE txCreateAllocations(txCreateProduct(txSaveProducts(t, procs, n - 1),
                                             procs[n]),
                             procs[n].allocations, Len(procs[n].allocations))

\* Some create of the callback hits a primary key.
RECURSIVE txSaveRejected(_, _, _)
txSaveRejected(t, procs, n) ==
    IF n = 0 THEN FALSE
    ELSE LET prior == txSaveProducts(t, procs, n - 1)
             rows == procs[n].allocations
         IN \/ txSaveRejected(t, procs, n - 1)
            \/ uniqueViolation(prior.products, productData(procs[n]))
            \/ \E k \in 1..Len(rows) :
                   uniqueViolation(
                       txCreateAllocations(txCreateProduct(prior, procs[n]),
                                           rows, k - 1).allocations,
                       allocationData(rows[k]))

InitOverlap ==
    /\ Idle
    /\ source \in OverlapSources
    /\ store \in EarlierStores
    /\ products = <<>>
    /\ allocations = <<>>
    /\ validated = Undefined

firstVars == <<source, tx, pc, fetchA, fetchP, products, allocations,
               processedProducts, i, j, result, response, faulted, raised,
               rejected, before, hist, listed, call, pairing, flat, flatOf,
               validated, validation>>

\* The second request fetched its data and merged it (lines 24-30).
OtherSyncMerged ==
    /\ other.pc = "idle"
    /\ \E s \in EarlierSources \cup OverlapSources :
           other' = [other EXCEPT
                        !.pc = "merged",
                        !.processedProducts =
                            mergeProductAndAllocations(s.products, s.allocations)]
    /\ UNCHANGED store
    /\ UNCHANGED firstVars

\* Its merge is empty: 400, nothing is saved (lines 32-43).
OtherSyncNoValidProducts ==
    /\ other.pc = "merged" /\ other.processedProducts = <<>>
    /\ other' = [other EXCEPT !.pc = "done"]
    /\ UNCHANGED store
    /\ UNCHANGED firstVars

\* It calls saveProductsToDatabase, which opens its transaction.
OtherSyncSave ==
    /\ other.pc = "merged" /\ other.processedProducts # <<>>
    /\ other' = [other EXCEPT !.pc = "saving",
                              !.tx = beginTransaction(store),
                              !.overlapped = tx.open]
    /\ UNCHANGED store
    /\ UNCHANGED firstVars

\* Its callback returned: prisma commits its view.
OtherTxCommit ==
    /\ other.pc = "saving"
    /\ ~txSaveRejected(other.tx, other.processedProducts,
                       Len(other.processedProducts))
    /\ store' = commit(store, txSaveProducts(other.tx, other.processedProducts,
                                             Len(other.processedProducts)))
    /\ other' = [other EXCEPT !.pc = "done", !.tx = NoTx, !.committed = TRUE,
                              !.overlapped = @ \/ tx.open]
    /\ UNCHANGED firstVars

\* Its callback or its commit threw: prisma rolls back, 500.
OtherTxFails ==
    /\ other.pc = "saving"
    /\ store' = rollback(store, other.tx)
    /\ other' = [other EXCEPT !.pc = "done", !.tx = NoTx]
    /\ UNCHANGED firstVars

NextOverlap ==
    \/ SyncStart
    \/ FetchAllocationsOk
    \/ FetchAllocationsFail
    \/ FetchProductsOk
    \/ FetchProductsFail
    \/ FetchAllDataReject
    \/ SyncNoValidProducts
    \/ SyncSave
    \/ TxDeleteAllocations
    \/ TxDeleteProducts
    \/ TxCreateProduct
    \/ TxCreateAllocation
    \/ TxCreateRejected
    \/ TxCreateFails
    \/ TxDeleteFails
    \/ TxCommit
    \/ TxCommitFails
    \/ OtherSyncMerged
    \/ OtherSyncNoValidProducts
    \/ OtherSyncSave
    \/ OtherTxCommit
    \/ OtherTxFails

SpecOverlap == InitOverlap /\ [][NextOverlap]_vars

(***************************************************************************)
(* The server with progress: every fetch and every database operation      *)
(* that was issued returns or fails, and the event loop runs every         *)
(* continuation that is ready.  Nothing obliges a request to arrive.       *)
(***************************************************************************)
InitLive ==
    /\ Idle
    /\ source \in OverlapSources
    /\ store \in EarlierStores
    /\ products = <<>>
    /\ allocations = <<>>
    /\ validated = Undefined

Fairness ==
    /\ WF_vars(FetchAllocationsOk \/ FetchAllocationsFail)
    /\ WF_vars(FetchProductsOk \/ FetchProductsFail)
    /\ WF_vars(FetchAllDataReject)
    /\ WF_vars(SyncNoValidProducts)
    /\ WF_vars(SyncSave)
    /\ WF_vars(TxDeleteAllocations \/ TxDeleteProducts \/ TxDeleteFails)
    /\ WF_vars(TxCreateProduct \/ TxCreateAllocation \/ TxCreateRejected
                  \/ TxCreateFails)
    /\ WF_vars(TxCommit \/ TxCommitFails)

SpecLive == InitLive /\ [][Next]_vars /\ Fairness

(***************************************************************************)
(* Vocabulary of the properties.                                           *)
(***************************************************************************)
Range(seq) == {seq[n] : n \in 1..Len(seq)}

\* saveProductsToDatabase was called by the finished request and threw /
\* returned its result.
SaveThrew == pc = "done" /\ result.errors # <<>>
SaveReturned == pc = "done" /\ result.success

\* An allocation row of the database without its derived id.
StripId(row) ==
    [productId |-> row.productId, assetClass |-> row.assetClass,
     region |-> row.region, securityIsin |-> row.securityIsin,
     securityCount |-> row.securityCount]

\* The entities of a read-back / of a merge result, as a set of entities
\* each with the set of its flattened rows.
ListedEntities(listing) ==
    {[id |-> e.id, type |-> e.type, profit |-> e.profit,
      currentAmount |-> e.currentAmount, investedAmount |-> e.investedAmount,
      rows |-> {StripId(a) : a \in e.allocations}] : e \in Range(listing)}

MergedEntities(procs) ==
    {[id |-> e.id, type |-> e.type, profit |-> e.profit,
      currentAmount |-> e.currentAmount, investedAmount |-> e.investedAmount,
      rows |-> Range(e.allocations)] : e \in Range(procs)}

\* The read-back holds exactly the entities procs, each once, each with
\* exactly its own rows.
IsSnapshotOf(listing, procs) ==
    /\ ListedEntities(listing) = MergedEntities(procs)
    /\ Len(listing) = Len(procs)
    /\ \A e \in Range(listing) :
           \E q \in Range(procs) :
               q.id = e.id /\ Cardinality(e.allocations) = Len(q.allocations)

\* The tree a product id is matched to: the last one of the array with it.
HasTree(allocs, id) == \E n \in 1..Len(allocs) : allocs[n].id = id
LastTree(allocs, id) ==
    allocs[CHOOSE n \in 1..Len(allocs) :
               allocs[n].id = id /\ \A k \in (n + 1)..Len(allocs) : allocs[k].id # id]

\* A summary that is kept, given the trees array.
Survives(product) ==
    /\ validateProduct(product).isValid
    /\ HasTree(allocations, product.id)
    /\ validateAllocation(LastTree(allocations, product.id)).isValid
    /\ Len(processAllocations(LastTree(allocations, product.id))) >= 1

ArrayOrders(seq) ==
    {[n \in 1..Len(seq) |-> seq[f[n]]] :
        f \in {g \in [1..Len(seq) -> 1..Len(seq)] :
                  \A a, b \in 1..Len(seq) : g[a] = g[b] => a = b}}

\* A field that is absent (undefined or the empty string).
Missing(x) == x \in {Undefined, Str(<<>>)}

\* The defects of the regions of asset class k (1-based), each with the
\* 0-based indices of the asset class and of the region.
RegionDefects(regions, k) ==
    LET R == 1..Len(regions)
    IN {<<"Region name is missing", k - 1, r - 1>> :
            r \in {q \in R : Missing(regions[q].name)}}
       \cup {<<"Security data is missing", k - 1, r - 1>> :
            r \in {q \in R : regions[q].security = Undefined}}
       \cup {<<"Security ISIN is missing", k - 1, r - 1>> :
            r \in {q \in R : /\ regions[q].security # Undefined
                              /\ Missing(regions[q].security.isin)}}
       \cup {<<"Security count must be a number", k - 1, r - 1>> :
            r \in {q \in R : /\ regions[q].security # Undefined
                              /\ regions[q].security.count.t # "number"}}

\* The defects of the six listed kinds anywhere in the tree of an
\* allocation whose payload is present.
ListedDefects(a) ==
    IF a.allocation.assetClass.t # "array" THEN {}
    ELSE LET acs == a.allocation.assetClass.v
             K == 1..Len(acs)
         IN {<<"Asset class name is missing", k - 1>> :
                 k \in {q \in K : Missing(acs[q].name)}}
            \cup {<<"Region data is missing or invalid", k - 1>> :
                 k \in {q \in K : acs[q].region.t # "array"}}
            \cup UNION {RegionDefects(acs[k].region.v, k) :
                            k \in {q \in K : acs[q].region.t = "array"}}

\* The same, with the missing or non-array asset-class list as a defect of
\* its own (reported without index, nothing below it being visited).
TreeDefects(a) ==
    IF a.allocation.assetClass.t # "array"
    THEN {<<"Asset class data is missing or invalid">>}
    ELSE ListedDefects(a)

\* The number of flattened rows of all the entities of procs.
RECURSIVE TotalRows(_)
TotalRows(procs) ==
    IF procs = <<>> THEN 0
    ELSE Len(Head(procs).allocations) + TotalRows(Tail(procs))

(***************************************************************************)
(* C1.  When an operation inside saveProductsToDatabase fails (whichever:  *)
(* a deleteMany, any create, the commit), the call throws (the handler     *)
(* answers "Sync process failed", no result is returned) and the committed *)
(* tables, hence what GET /products returns, are those from before the     *)
(* call.                                                                   *)
(***************************************************************************)
C1_FailedSaveLeavesStore ==
    SaveThrew =>
        /\ response = SyncFailed
        /\ ~result.success
        /\ store = before
        /\ getProductsWithAllocations(store) = getProductsWithAllocations(before)

\* The insert of the second entity failed, after the deletes and the first
\* entity's inserts, on a database that held rows.
C1_Witness ==
    /\ SaveThrew
    /\ faulted
    /\ result.productsProcessed = 1
    /\ result.allocationsProcessed >= 1
    /\ Len(processedProducts) >= 2
    /\ before.products # {}

(***************************************************************************)
(* C2.  After a saveProductsToDatabase(E) that committed, whatever the     *)
(* tables held before, the read-back is exactly the entities of E, each    *)
(* with exactly its own rows.                                              *)
(***************************************************************************)
C2_CommitReplacesAll ==
    SaveReturned =>
        IsSnapshotOf(getProductsWithAllocations(store), processedProducts)

\* A commit over earlier content that held an entity E does not have.
C2_Witness ==
    /\ SaveReturned
    /\ \E old \in before.products :
           \A e \in Range(processedProducts) : e.id # old.id
    /\ before.allocations # {}

(***************************************************************************)
(* C3.  Two runs of GET /sync on the same dataX data, neither hit by a     *)
(* transport or database fault, leave the same GET /products output.       *)
(***************************************************************************)
C3_Idempotent == Len(hist) = 2 => hist[1] = hist[2]

\* The second of two fault-free runs committed, over what the first left.
C3_Witness ==
    /\ Len(hist) = 2
    /\ SaveReturned
    /\ ~faulted
    /\ before = store
    /\ store.products # {}

(***************************************************************************)
(* C4 as stated.  After a run that ended without transport or persistence  *)
(* error (200 or 400), the read-back is the merge of the data served,      *)
(* also when that merge is empty.                                          *)
(***************************************************************************)
C4_Original ==
    (pc = "done" /\ response.status \in {200, 400}) =>
        IsSnapshotOf(getProductsWithAllocations(store),
                     mergeProductAndAllocations(source.products, source.allocations))

(***************************************************************************)
(* C4 amended.  After a run that ended without transport or persistence    *)
(* error: if the merge of the data served is not empty, the read-back is   *)
(* exactly that merge, whatever the tables held before; if it is empty,    *)
(* the run answers "no valid products" and the tables are left as they     *)
(* were.                                                                   *)
(***************************************************************************)
C4_SnapshotUnlessEmpty ==
    (pc = "done" /\ response.status \in {200, 400}) =>
        LET merged == mergeProductAndAllocations(source.products, source.allocations)
        IN IF merged # <<>>
           THEN /\ response.status = 200
                /\ IsSnapshotOf(getProductsWithAllocations(store), merged)
           ELSE /\ response = NoValidProducts
                /\ store = before

\* Both cases: a commit over other content, and an empty merge on a
\* database that holds entities.
C4_Witness ==
    /\ pc = "done"
    /\ \/ response.status = 200 /\ before.products # {} /\ before # store
       \/ response.status = 400 /\ store.products # {}

(***************************************************************************)
(* C5 as stated.  An id is in the merge output iff some summary with that  *)
(* id is valid and some tree with that id is valid and flattens to at      *)
(* least one row.                                                          *)
(***************************************************************************)
C5_Original ==
    call = "mergeProductAndAllocations" =>
        \A id \in Range(Ids(products)) \cup Range(Ids(allocations))
                  \cup Range(Ids(processedProducts)) :
            (\E e \in Range(processedProducts) : e.id = id)
            <=> /\ \E p \in Range(products) :
                       p.id = id /\ validateProduct(p).isValid
                /\ \E a \in Range(allocations) :
                       /\ a.id = id
                       /\ validateAllocation(a).isValid
                       /\ Len(processAllocations(a)) >= 1

(***************************************************************************)
(* C5 amended.  An id is in the merge output iff some summary with that id *)
(* is valid and the last tree with that id in the trees array is valid and *)
(* flattens to at least one row.                                           *)
(***************************************************************************)
C5_OutputIffValidPair ==
    call = "mergeProductAndAllocations" =>
        \A id \in Range(Ids(products)) \cup Range(Ids(allocations))
                  \cup Range(Ids(processedProducts)) :
            (\E e \in Range(processedProducts) : e.id = id)
            <=> /\ \E p \in Range(products) :
                       p.id = id /\ validateProduct(p).isValid
                /\ HasTree(allocations, id)
                /\ validateAllocation(LastTree(allocations, id)).isValid
                /\ Len(processAllocations(LastTree(allocations, id))) >= 1

\* Two trees with the id of a valid summary, the earlier one unusable, the
\* last one usable: the entity is output.
C5_Witness ==
    /\ call = "mergeProductAndAllocations"
    /\ allocations = <<T1empty, T1>>
    /\ products = <<P2bad, P1>>
    /\ Ids(processedProducts) = <<ID1>>

(***************************************************************************)
(* C6.  validateDataPairing returns one entry per id of S \cup T (S the    *)
(* summary ids, T the tree ids): valid with no error for S \cap T, invalid *)
(* with the "no corresponding allocation" error for S \ T, invalid with    *)
(* the "no corresponding product" error for T \ S.                         *)
(***************************************************************************)
C6_PairingPartition ==
    call = "validateDataPairing" =>
        LET S == Range(Ids(products))
            T == Range(Ids(allocations))
        IN /\ {e.key : e \in Range(pairing)} = S \cup T
           /\ Len(pairing) = Cardinality(S \cup T)
           /\ \A e \in Range(pairing) :
                  /\ e.key \in S \cap T =>
                         e.value = [isValid |-> TRUE, errors |-> <<>>]
                  /\ e.key \in S \ T =>
                         e.value = [isValid |-> FALSE,
                                    errors |-> <<<<"Product", e.key,
                                        "has no corresponding allocation data">>>>]
                  /\ e.key \in T \ S =>
                         e.value = [isValid |-> FALSE,
                                    errors |-> <<<<"Allocation", e.key,
                                        "has no corresponding product data">>>>]

\* All three classes occur in one call.
C6_Witness ==
    /\ call = "validateDataPairing"
    /\ Range(Ids(products)) \cap Range(Ids(allocations)) # {}
    /\ Range(Ids(products)) \ Range(Ids(allocations)) # {}
    /\ Range(Ids(allocations)) \ Range(Ids(products)) # {}

(***************************************************************************)
(* C7.  validateDataPairing gives the same id-to-verdict mapping for every *)
(* permutation of the summaries array and of the trees array.              *)
(***************************************************************************)
C7_PairingOrderIndependent ==
    call = "validateDataPairing" =>
        \A pp \in ArrayOrders(products) :
            \A pa \in ArrayOrders(allocations) :
                Range(validateDataPairing(pp, pa)) = Range(pairing)

\* Arrays that have more than one order, with orphans on both sides.
C7_Witness ==
    /\ call = "validateDataPairing"
    /\ Len(products) = 2 /\ products[1].id # products[2].id
    /\ Len(allocations) = 2 /\ allocations[1].id # allocations[2].id
    /\ \E e \in Range(pairing) : e.value.isValid
    /\ \E e \in Range(pairing) : ~e.value.isValid

(***************************************************************************)
(* C8.  processAllocations returns one row per region that has a security, *)
(* in document order (asset classes in order, regions in order within), a  *)
(* region without a security giving no row; N asset classes of M regions   *)
(* each, all with a security, give N*M rows; an absent payload or asset    *)
(* class list gives no row.                                                *)
(***************************************************************************)
C8_FlattenRows ==
    call = "processAllocations" =>
        IF Falsy(flatOf.allocation) \/ Falsy(flatOf.allocation.assetClass)
        THEN flat = <<>>
        ELSE LET acs == flatOf.allocation.assetClass.v
                 Regions(a) == IF Falsy(acs[a].region) THEN <<>> ELSE acs[a].region.v
                 leaves == UNION {{<<a, r>> : r \in {k \in 1..Len(Regions(a)) :
                                                   ~Falsy(Regions(a)[k].security)}} :
                                  a \in 1..Len(acs)}
                 Earlier(q, r) == q[1] < r[1] \/ (q[1] = r[1] /\ q[2] < r[2])
                 Position(r) == 1 + Cardinality({q \in leaves : Earlier(q, r)})
             IN /\ Len(flat) = Cardinality(leaves)
                /\ \A r \in leaves :
                       flat[Position(r)] =
                           [productId |-> flatOf.id,
                            assetClass |-> acs[r[1]].name,
                            region |-> Regions(r[1])[r[2]].name,
                            securityIsin |-> Regions(r[1])[r[2]].security.isin,
                            securityCount |-> Regions(r[1])[r[2]].security.count]
                /\ \A m \in {Len(Regions(a)) : a \in 1..Len(acs)} :
                       (\A a \in 1..Len(acs) :
                            /\ Len(Regions(a)) = m
                            /\ \A r \in 1..m : ~Falsy(Regions(a)[r].security))
                       => Len(flat) = Len(acs) * m

\* A tree with a region without a security (skipped), and a 2 x 2 tree.
C8_Witness ==
    /\ call = "processAllocations"
    /\ \/ flatOf = T1bare /\ Len(flat) = 1
       \/ flatOf = T2 /\ Len(flat) = 4

(***************************************************************************)
(* C9.  The ids output by the merge are the ids of the input summaries, in *)
(* input order, restricted to the summaries that survive.                  *)
(***************************************************************************)
C9_OutputInInputOrder ==
    call = "mergeProductAndAllocations" =>
        Ids(processedProducts) = Ids(SelectSeq(products, Survives))

\* Two survivors, in an input order that is not the id order.
C9_Witness ==
    /\ call = "mergeProductAndAllocations"
    /\ Ids(products) = <<ID2, ID1>>
    /\ Ids(processedProducts) = <<ID2, ID1>>

(***************************************************************************)
(* C10.  A valid, paired summary whose (valid) tree flattens to zero rows  *)
(* is not in the merge output, and every entity of the output has at       *)
(* least one row.                                                          *)
(***************************************************************************)
C10_NoEntityWithoutRows ==
    call = "mergeProductAndAllocations" =>
        /\ \A e \in Range(processedProducts) : Len(e.allocations) >= 1
        /\ \A p \in Range(products) :
               (/\ validateProduct(p).isValid
                /\ HasTree(allocations, p.id)
                /\ validateAllocation(LastTree(allocations, p.id)).isValid
                /\ processAllocations(LastTree(allocations, p.id)) = <<>>)
               => \A e \in Range(processedProducts) : e.id # p.id

\* The entity with the empty asset-class list is left out, the other kept.
C10_Witness ==
    /\ call = "mergeProductAndAllocations"
    /\ products = <<P1, P2>>
    /\ allocations = <<T1empty, T2>>
    /\ Ids(processedProducts) = <<ID2>>

(***************************************************************************)
(* C11.  In every state, every product row of the database (committed or   *)
(* in the open transaction) has a productType of the enum and was written  *)
(* by a sync of data that held a summary with that id and that type and a  *)
(* tree with that id; after a commit every row has both its summary and    *)
(* its tree in the arrays this run fetched.                                *)
(***************************************************************************)
C11_PersistedWerePaired ==
    /\ \A p \in store.products \cup tx.products :
           /\ p.type \in ProductType
           /\ \E s \in {source} \cup EarlierSources :
                  /\ \E q \in Range(s.products) :
                         /\ q.id = p.id
                         /\ q.productType = p.type
                         /\ validateProductType(q.productType)
                  /\ HasTree(s.allocations, p.id)
    /\ SaveReturned =>
           \A p \in store.products :
               /\ \E q \in Range(products) :
                      q.id = p.id /\ validateProductType(q.productType)
               /\ HasTree(allocations, p.id)

\* A commit of data in which one summary has its tree but a productType
\* outside the enum, and another summary is persisted.
C11_Witness ==
    /\ SaveReturned
    /\ store.products # {}
    /\ \E q \in Range(products) :
           /\ ~validateProductType(q.productType)
           /\ HasTree(allocations, q.id)
           /\ \A p \in store.products : p.id # q.id

(***************************************************************************)
(* C12.  For every id x, the entities with id x in the merge output are    *)
(* the merge of the summaries with id x and the trees with id x alone:     *)
(* whatever the arrays hold under other ids changes neither whether x is   *)
(* output nor the content of its entity.                                   *)
(***************************************************************************)
C12_EntitiesIndependent ==
    call = "mergeProductAndAllocations" =>
        \A x \in Range(Ids(products)) \cup Range(Ids(allocations)) :
            LET HasId(e) == e.id = x
            IN SelectSeq(processedProducts, HasId)
               = mergeProductAndAllocations(SelectSeq(products, HasId),
                                            SelectSeq(allocations, HasId))

\* A kept entity next to a summary that is rejected and a tree that is
\* invalid, both under another id.
C12_Witness ==
    /\ call = "mergeProductAndAllocations"
    /\ products = <<P2bad, P1>>
    /\ allocations = <<T2none, T1>>
    /\ Ids(processedProducts) = <<ID1>>

(***************************************************************************)
(* C13.  validateProduct returns exactly one error per violated rule among *)
(* id missing, productType invalid or missing, profit / currentAmount /    *)
(* investedAmount not a number (so as many errors as violated rules), and  *)
(* isValid is true iff the error list is empty.                            *)
(***************************************************************************)
C13_OneErrorPerViolatedRule ==
    call = "validateProduct" =>
        LET violated ==
                (IF Missing(validated.id)
                 THEN {<<"Product ID is missing">>} ELSE {})
                \cup (IF validated.productType \notin {WEALTH, PRIVATE_EQUITY}
                      THEN {<<"Invalid or missing product type",
                              validated.productType>>} ELSE {})
                \cup (IF validated.profit.t # "number"
                      THEN {<<"Profit must be a number">>} ELSE {})
                \cup (IF validated.currentAmount.t # "number"
                      THEN {<<"Current amount must be a number">>} ELSE {})
                \cup (IF validated.investedAmount.t # "number"
                      THEN {<<"Invested amount must be a number">>} ELSE {})
        IN /\ Range(validation.errors) = violated
           /\ Len(validation.errors) = Cardinality(violated)
           /\ validation.isValid <=> validation.errors = <<>>

\* Two of the three numeric fields are not numbers, the rest is fine: two
\* errors.
C13_Witness ==
    /\ call = "validateProduct"
    /\ validated.id = ID1 /\ validated.productType = WEALTH
    /\ validated.profit = Num(0)
    /\ validated.currentAmount = Str(<<"1">>)
    /\ validated.investedAmount = Undefined
    /\ Len(validation.errors) = 2

(***************************************************************************)
(* C14 as stated.  If the id is missing or the payload is absent,          *)
(* validateAllocation returns isValid = false with exactly one error.      *)
(***************************************************************************)
C14_Original ==
    (/\ call = "validateAllocation"
     /\ Missing(validated.id) \/ validated.allocation = Undefined)
    => /\ ~validation.isValid
       /\ Len(validation.errors) = 1

(***************************************************************************)
(* C14 amended.  If the payload is absent, validateAllocation returns at   *)
(* once with isValid = false and the single error "Allocation data is      *)
(* missing", preceded by the id error when the id is missing too.  A       *)
(* missing id alone does not end the validation: its error comes first and *)
(* the tree is traversed as usual, every defect of it being reported.      *)
(***************************************************************************)
C14_FailsFastOnAbsentPayload ==
    call = "validateAllocation" =>
        /\ validated.allocation = Undefined =>
               /\ ~validation.isValid
               /\ validation.errors =
                      (IF Missing(validated.id)
                       THEN <<<<"Allocation ID is missing">>>> ELSE <<>>)
                      \o <<<<"Allocation data is missing">>>>
        /\ (Missing(validated.id) /\ validated.allocation # Undefined) =>
               /\ ~validation.isValid
               /\ Head(validation.errors) = <<"Allocation ID is missing">>
               /\ Range(Tail(validation.errors)) = TreeDefects(validated)
               /\ Len(validation.errors) = 1 + Cardinality(TreeDefects(validated))

\* Neither id nor payload: the id error, then the payload error.
C14_Witness ==
    /\ call = "validateAllocation"
    /\ validated.id = Undefined
    /\ validated.allocation = Undefined
    /\ Len(validation.errors) = 2

(***************************************************************************)
(* C15 as stated.  With id and payload present, validateAllocation returns *)
(* one error for each defect of the six listed kinds found anywhere in the *)
(* tree, each with its asset-class index and, at region level, its region  *)
(* index, and isValid is true iff there is no such defect.                 *)
(***************************************************************************)
C15_Original ==
    (/\ call = "validateAllocation"
     /\ ~Missing(validated.id) /\ validated.allocation # Undefined)
    => /\ Range(validation.errors) = ListedDefects(validated)
       /\ Len(validation.errors) = Cardinality(ListedDefects(validated))
       /\ validation.isValid <=> ListedDefects(validated) = {}

(***************************************************************************)
(* C15 amended.  With id and payload present: if the asset-class list is   *)
(* missing or not an array, validateAllocation returns that one error      *)
(* (without index); otherwise it visits every asset class and every region *)
(* and returns one error for each defect of the six listed kinds, each     *)
(* with its asset-class index and, at region level, its region index.      *)
(* isValid is true iff no error is returned.                               *)
(***************************************************************************)
C15_AllDefectsCollected ==
    (/\ call = "validateAllocation"
     /\ ~Missing(validated.id) /\ validated.allocation # Undefined)
    => /\ Range(validation.errors) = TreeDefects(validated)
       /\ Len(validation.errors) = Cardinality(TreeDefects(validated))
       /\ validation.isValid <=> TreeDefects(validated) = {}

\* Defects in two different asset classes, one of them at the second
\* region of its asset class: both reported.
C15_Witness ==
    /\ call = "validateAllocation"
    /\ validated.id = ID1 /\ validated.allocation # Undefined
    /\ \E e1, e2 \in Range(validation.errors) :
           /\ Len(e1) >= 2 /\ Len(e2) = 3
           /\ e1[2] # e2[2]
           /\ e2[3] = 1

(***************************************************************************)
(* C16.  If a fetch failed, in whatever order the two fetches completed,   *)
(* the run does no merge and no saveProductsToDatabase: no transaction is  *)
(* open, no result exists, the committed tables are those from before the  *)
(* run, and the run ends with "Sync process failed".  A transaction is     *)
(* open only after both fetches delivered their arrays without error.      *)
(***************************************************************************)
C16_FetchesJoined ==
    /\ (raised.allocations # NoError \/ raised.products # NoError) =>
           /\ tx = NoTx
           /\ processedProducts = <<>>
           /\ result = NoResult
           /\ store = before
           /\ pc \in {"fetching", "done"}
           /\ pc = "done" => response = SyncFailed
    /\ tx.open =>
           /\ raised = NoErrors
           /\ products = source.products
           /\ allocations = source.allocations
           /\ processedProducts = mergeProductAndAllocations(products, allocations)

\* The products had arrived when the allocations fetch failed, on data
\* that would have been saved over a database holding rows.
C16_Witness ==
    /\ pc = "done"
    /\ raised.allocations # NoError /\ raised.products = NoError
    /\ products # <<>> /\ products = source.products
    /\ mergeProductAndAllocations(source.products, source.allocations) # <<>>
    /\ store.products # {}

(***************************************************************************)
(* C17.  The error fetchAllocations / fetchProducts rejects with is the    *)
(* one thrown inside it, the error Promise.all and fetchAllData reject     *)
(* with is that of a failed fetch (one of the two when both failed), and a *)
(* run in which a fetch threw ends with fetchAllData rejected.             *)
(***************************************************************************)
C17_TransportErrorUnmodified ==
    /\ rejected.allocations = raised.allocations
    /\ rejected.products = raised.products
    /\ rejected.promiseAll # NoError =>
           rejected.promiseAll \in {raised.allocations, raised.products}
    /\ rejected.fetchAllData # NoError =>
           /\ rejected.fetchAllData \in {raised.allocations, raised.products}
           /\ rejected.fetchAllData = rejected.promiseAll
    /\ (pc = "done" /\ raised # NoErrors) => rejected.fetchAllData # NoError

\* Both fetches failed, the products fetch first: fetchAllData rejected
\* with its error.
C17_Witness ==
    /\ pc = "done"
    /\ raised.allocations = HttpError("allocations", 500)
    /\ raised.products = NetworkError
    /\ rejected.fetchAllData = NetworkError

(***************************************************************************)
(* C18.  When saveProductsToDatabase commits, its result has success =     *)
(* true, no errors, productsProcessed = the number of entities passed in   *)
(* and allocationsProcessed = the number of their flattened rows, which    *)
(* are the numbers of product rows and allocation rows in the tables; the  *)
(* response carries the same numbers.                                      *)
(***************************************************************************)
C18_CountsAreExact ==
    SaveReturned =>
        /\ result.errors = <<>>
        /\ result.productsProcessed = Len(processedProducts)
        /\ result.allocationsProcessed = TotalRows(processedProducts)
        /\ result.productsProcessed = Cardinality(store.products)
        /\ result.allocationsProcessed = Cardinality(store.allocations)
        /\ response.success
        /\ response.productsProcessed = result.productsProcessed
        /\ response.allocationsProcessed = result.allocationsProcessed

\* Two entities, of one and of four rows, committed over earlier rows.
C18_Witness ==
    /\ SaveReturned
    /\ Len(processedProducts) = 2
    /\ result.allocationsProcessed = 5
    /\ before.allocations # {}

(***************************************************************************)
(* C19.  The body of GET /products holds every product row of the tables   *)
(* once, with its own fields, each with exactly the allocation rows that   *)
(* reference it, in strictly ascending order of id; the order in which     *)
(* the rows were inserted (the order of the summaries) plays no part.      *)
(***************************************************************************)
C19_ListedByIdAscending ==
    listed # NoListing =>
        /\ Len(listed.products) = Cardinality(store.products)
        /\ listed.products # <<>> => listed.count = Len(listed.products)
        /\ \A p \in store.products :
               \E n \in 1..Len(listed.products) :
                   /\ productData(listed.products[n]) = p
                   /\ listed.products[n].allocations
                        = {a \in store.allocations : a.productId = p.id}
        /\ \A n \in 1..(Len(listed.products) - 1) :
               StrLess(listed.products[n].id.v, listed.products[n + 1].id.v)

\* The run inserted p2 before p1 and committed; the listing gives p1 first.
C19_Witness ==
    /\ listed # NoListing
    /\ SaveReturned
    /\ Ids(processedProducts) = <<ID2, ID1>>
    /\ Ids(listed.products) = <<ID1, ID2>>
    /\ \A n \in 1..2 : listed.products[n].allocations # {}

(***************************************************************************)
(* C20.  A finished GET /sync answers in exactly one of three ways:        *)
(* success (200, success = true, the counts) iff both fetches delivered,   *)
(* the merge of the data is not empty and saveProductsToDatabase           *)
(* committed; "No valid products found to sync" (400) iff both fetches     *)
(* delivered and the merge is empty; "Sync process failed" (500) iff a     *)
(* fetch or saveProductsToDatabase threw.  Skipped entities alone never    *)
(* give the failure.                                                       *)
(***************************************************************************)
C20_ThreeOutcomes ==
    pc = "done" =>
        LET fetchedBoth ==
                /\ raised = NoErrors
                /\ products = source.products
                /\ allocations = source.allocations
            merged == mergeProductAndAllocations(source.products, source.allocations)
        IN /\ response.status \in {200, 400, 500}
           /\ response.status = 200 <=>
                  (fetchedBoth /\ merged # <<>> /\ result.success)
           /\ response.status = 200 =>
                  /\ response.success
                  /\ response.message = "Sync completed successfully"
                  /\ response.productsProcessed = Len(merged)
                  /\ response.allocationsProcessed = TotalRows(merged)
           /\ response.status = 400 <=> (fetchedBoth /\ merged = <<>>)
           /\ response.status = 400 => response = NoValidProducts
           /\ response.status = 500 <=>
                  (raised # NoErrors \/ result.errors # <<>>)
           /\ response.status = 500 => response = SyncFailed

\* A run that skipped one of two fetched summaries and reports success.
C20_Witness ==
    /\ pc = "done"
    /\ response.status = 200 /\ response.success
    /\ Len(products) = 2
    /\ response.productsProcessed = 1

(***************************************************************************)
(* C21.  When the merge of the fetched data is empty, GET /sync answers    *)
(* "No valid products found to sync" with zero counts and does not call    *)
(* saveProductsToDatabase: no transaction is open at any moment of the     *)
(* run, no SyncResult exists, and the committed tables are those from      *)
(* before the run.                                                         *)
(***************************************************************************)
C21_EmptyMergeTouchesNothing ==
    /\ (/\ pc \notin {"idle", "fetching"}
        /\ raised = NoErrors
        /\ mergeProductAndAllocations(source.products, source.allocations) = <<>>)
       => /\ pc = "done"
          /\ response = NoValidProducts
          /\ response.productsProcessed = 0
          /\ response.allocationsProcessed = 0
          /\ result = NoResult
          /\ tx = NoTx
          /\ store = before
    /\ tx.open => mergeProductAndAllocations(products, allocations) # <<>>

\* Summaries and trees were fetched, none survived, on a database that
\* holds rows.
C21_Witness ==
    /\ pc = "done"
    /\ response = NoValidProducts
    /\ products # <<>> /\ allocations # <<>>
    /\ store.products # {} /\ store.allocations # {}

(***************************************************************************)
(* C22.  A GET /products that is answered while a run of GET /sync is in   *)
(* progress shows the complete content from before the run as long as the  *)
(* transaction has not committed, and the complete merge result of the run *)
(* once it has: never the tables of a transaction that is still deleting   *)
(* or inserting.                                                           *)
(***************************************************************************)
C22_NoIntermediateStateListed ==
    (listed # NoListing /\ pc # "idle")
        => IF pc = "done" /\ result # NoResult /\ result.success
           THEN IsSnapshotOf(listed.products, processedProducts)
           ELSE listed = productsBody(getProductsWithAllocations(before))

\* A listing answered in the middle of the inserts: the transaction has
\* created one product of two, the listing still shows the old rows.
C22_Witness ==
    /\ listed # NoListing
    /\ pc = "create" /\ i = 2 /\ Len(processedProducts) = 2
    /\ tx.products # {} /\ tx.products # before.products
    /\ before.products # {}
    /\ listed = productsBody(getProductsWithAllocations(before))

(***************************************************************************)
(* C23.  The n-th entity that mergeProductAndAllocations returns is built  *)
(* from the n-th surviving product: it has that product's id, productType  *)
(* (as type), profit, currentAmount and investedAmount, unchanged, and its *)
(* allocations are exactly processAllocations of the tree matched to the   *)
(* id, every row with that id as productId.                                *)
(***************************************************************************)
C23_EntityCarriesItsSummary ==
    call = "mergeProductAndAllocations"
        => LET kept == SelectSeq(products, Survives)
           IN /\ Len(processedProducts) = Len(kept)
              /\ \A n \in 1..Len(processedProducts) :
                     LET e == processedProducts[n]
                         product == kept[n]
                     IN /\ e.id = product.id
                        /\ e.type = product.productType
                        /\ e.profit = product.profit
                        /\ e.currentAmount = product.currentAmount
                        /\ e.investedAmount = product.investedAmount
                        /\ e.allocations =
                               processAllocations(LastTree(allocations, e.id))
                        /\ \A k \in 1..Len(e.allocations) :
                               e.allocations[k].productId = e.id

\* Two entities of different type and profit, the second with four rows,
\* out of an input that also holds a rejected product.
C23_Witness ==
    /\ call = "mergeProductAndAllocations"
    /\ Len(processedProducts) = 2
    /\ processedProducts[1].type # processedProducts[2].type
    /\ processedProducts[1].profit # processedProducts[2].profit
    /\ processedProducts[1].currentAmount # processedProducts[1].investedAmount
    /\ Len(processedProducts[2].allocations) = 4

(***************************************************************************)
(* C24.  The transaction of saveProductsToDatabase works in this order:    *)
(* all allocation rows are deleted, then all product rows, then for each   *)
(* entity in array order its product row is created and after it its       *)
(* allocation rows in array order.  After each of these steps every        *)
(* allocation row of the transaction's tables has its product row there.   *)
(***************************************************************************)
C24_StepOrderKeepsReferences ==
    tx.open =>
        /\ pc \in {"deleteAllocations", "deleteProducts", "create"}
        /\ pc = "deleteAllocations" =>
               tx.products = before.products /\ tx.allocations = before.allocations
        /\ pc = "deleteProducts" =>
               tx.products = before.products /\ tx.allocations = {}
        /\ pc = "create" =>
               LET prior == savedTables(processedProducts, i - 1)
               IN IF j = 0
                  THEN tx.products = prior.products
                       /\ tx.allocations = prior.allocations
                  ELSE /\ tx.products =
                              prior.products \cup {productData(processedProducts[i])}
                       /\ tx.allocations =
                              prior.allocations
                              \cup savedAllocations(processedProducts[i].allocations,
                                                    j - 1)
        /\ \A a \in tx.allocations : \E p \in tx.products : p.id = a.productId

\* In the middle of the second entity's rows, on tables that held rows
\* before the run.
C24_Witness ==
    /\ tx.open /\ pc = "create"
    /\ i = 2 /\ j = 3
    /\ before.allocations # {}
    /\ Cardinality(tx.products) = 2
    /\ Cardinality(tx.allocations) = 3

(***************************************************************************)
(* C25.  As claimed: in every result of mergeProductAndAllocations the     *)
(* allocation row ids that saveProductsToDatabase derives (product id,     *)
(* asset class, region and ISIN joined by "_") are different for any two   *)
(* different rows.  The code does not ensure it: a tree that lists the     *)
(* same ISIN twice under equal asset class and region names is accepted    *)
(* and flattened to two rows with one id.                                  *)
(***************************************************************************)
C25_Original ==
    call = "mergeProductAndAllocations"
        => \A m, n \in 1..Len(processedProducts) :
               \A k \in 1..Len(processedProducts[m].allocations) :
                   \A l \in 1..Len(processedProducts[n].allocations) :
                       (m # n \/ k # l)
                           => allocationId(processedProducts[m].allocations[k])
                              # allocationId(processedProducts[n].allocations[l])

(***************************************************************************)
(* C26.  saveProductsToDatabase([]) runs its transaction like any other    *)
(* call: unless the database fails, it commits with both tables empty,     *)
(* whatever they held, and returns success = true, productsProcessed = 0,  *)
(* allocationsProcessed = 0 and no errors.                                 *)
(***************************************************************************)
C26_EmptyArrayClearsTheStore ==
    (pc = "done" /\ processedProducts = <<>> /\ ~faulted)
        => /\ result = [success |-> TRUE, productsProcessed |-> 0,
                        allocationsProcessed |-> 0, errors |-> <<>>]
           /\ store = EmptyTables
           /\ tx = NoTx
           /\ hist # <<>>
           /\ hist[Len(hist)] = <<>>

\* The call with the empty array returned on tables that held rows.
C26_Witness ==
    /\ pc = "done" /\ processedProducts = <<>> /\ ~faulted
    /\ result.success
    /\ before.products # {} /\ before.allocations # {}
    /\ store = EmptyTables

(***************************************************************************)
(* C27.  As claimed: whatever the arrays, repeated ids included, no two    *)
(* entities of a result of mergeProductAndAllocations have the same id.    *)
(* The code keeps one entity per product of the array, so a product id     *)
(* that occurs twice with a valid tree comes out twice.                    *)
(***************************************************************************)
C27_Original ==
    call = "mergeProductAndAllocations"
        => \A m, n \in 1..Len(processedProducts) :
               m # n => processedProducts[m].id # processedProducts[n].id

\* The number of regions under the first n asset classes of a tree whose
\* region lists are arrays.
RECURSIVE RegionsUpTo(_, _)
RegionsUpTo(assetClasses, n) ==
    IF n = 0 THEN 0
    ELSE RegionsUpTo(assetClasses, n - 1) + Len(assetClasses[n].region.v)

(***************************************************************************)
(* C28.  The tree of every entity that mergeProductAndAllocations returns  *)
(* has a security at each of its regions, and the entity has as many rows  *)
(* as the tree has regions: processAllocations skips nothing for it.  A    *)
(* tree with a region that lacks its security fails validateAllocation     *)
(* and its product is left out.                                            *)
(***************************************************************************)
C28_AcceptedTreesAreComplete ==
    call = "mergeProductAndAllocations"
        => /\ \A n \in 1..Len(processedProducts) :
                  LET e == processedProducts[n]
                      tree == LastTree(allocations, e.id).allocation
                  IN /\ IsArray(tree.assetClass)
                     /\ \A a \in 1..Len(tree.assetClass.v) :
                            /\ IsArray(tree.assetClass.v[a].region)
                            /\ \A r \in 1..Len(tree.assetClass.v[a].region.v) :
                                   ~Falsy(tree.assetClass.v[a].region.v[r].security)
                     /\ Len(e.allocations) =
                            RegionsUpTo(tree.assetClass.v, Len(tree.assetClass.v))
           /\ \A n \in 1..Len(products) :
                  (/\ HasTree(allocations, products[n].id)
                   /\ LastTree(allocations, products[n].id) = T1nosec)
                      => \A m \in 1..Len(processedProducts) :
                             processedProducts[m].id # products[n].id

\* The product whose tree has a region without security is left out, the
\* other one is kept with a row for each of its four regions.
C28_Witness ==
    /\ call = "mergeProductAndAllocations"
    /\ products = <<P1, P2>>
    /\ allocations = <<T1nosec, T2>>
    /\ Len(processedProducts) = 1
    /\ processedProducts[1].id = ID2
    /\ Len(processedProducts[1].allocations) = 4

\* The tables a committed saveProductsToDatabase(procs) leaves.
ResultOf(procs) == savedTables(procs, Len(procs))

(***************************************************************************)
(* C29.  Two GET /sync requests whose fetches and transactions interleave  *)
(* in any way: when both have answered, the committed tables hold exactly  *)
(* the merge result of one of the two that committed (all of its rows and  *)
(* no row of the other), or what they held before when neither committed.  *)
(***************************************************************************)
C29_OverlapLeavesOneResult ==
    (pc = "done" /\ other.pc = "done")
        => \/ /\ result.success
              /\ store = ResultOf(processedProducts)
           \/ /\ other.committed
              /\ store = ResultOf(other.processedProducts)
           \/ /\ ~result.success /\ ~other.committed
              /\ store = before

\* Both transactions were open at the same time, both committed, the
\* second request first; the tables hold the first request's result, which
\* differs from the second's.
C29_Witness ==
    /\ pc = "done" /\ other.pc = "done"
    /\ other.overlapped
    /\ result.success /\ other.committed
    /\ store = ResultOf(processedProducts)
    /\ store # ResultOf(other.processedProducts)
    /\ before # store

(***************************************************************************)
(* C30.  Every GET /sync that was received is answered, with one of the    *)
(* three responses, and every transaction that saveProductsToDatabase      *)
(* opened is closed, committed or rolled back, by the time of the answer:  *)
(* a request does not wait on for a fetch whose sibling has failed, and    *)
(* no transaction stays open.                                              *)
(***************************************************************************)
C30_EveryRunCompletes ==
    /\ (pc = "fetching") ~> (pc = "done" /\ response.status \in {200, 400, 500})
    /\ tx.open ~> (~tx.open /\ pc = "done")
    /\ (pc = "fetching" /\ (fetchA = "err" \/ fetchP = "err"))
           ~> (pc = "done" /\ response = SyncFailed)

\* The allocations fetch failed and the request was answered while the
\* products fetch had not delivered anything.
C30_Witness ==
    /\ pc = "done"
    /\ response = SyncFailed
    /\ rejected.allocations # NoError
    /\ rejected.products = NoError
    /\ products = <<>>
    /\ ~tx.open

====
